---- MODULE Spec2Model ----
(***************************************************************************)
(* A model of tsupasswd (src/src/main.rs): the session file that gates the *)
(* vault, the passwords and passkeys tables, and the command handlers of   *)
(* main() that read and write them.                                        *)
(*                                                                         *)
(* Strings are sequences of one-character strings, so that parsing,        *)
(* formatting and trimming are computed character by character.            *)
(* Option<T> is a sequence of length 0 (None) or 1 (Some(v)).              *)
(***************************************************************************)
EXTENDS Integers, Sequences, FiniteSets, TLC

VARIABLES
    now,          \* Utc::now().timestamp(): wall-clock seconds
    sessionFile,  \* the file at session_file_path(): None when absent, Some(text)
    passwords,    \* rows of the table COLLECTION ("passwords")
    passkeys,     \* rows of the table passkeys
    clock,        \* Utc::now() at sub-second resolution: orders created_at values
    argv,         \* what the last invocation was given: AUTH_SECRET and arguments
    out           \* what the last invocation reported: command, exit status, message

vars == <<now, sessionFile, passwords, passkeys, clock, argv, out>>

-----------------------------------------------------------------------------
(* Option and Result *)

None == <<>>
Some(v) == <<v>>
IsSome(o) == Len(o) = 1
Unwrap(o) == o[1]
\* Option::or
OrElse(a, b) == IF IsSome(a) THEN a ELSE b

Ok(v) == [ok |-> TRUE, val |-> v, err |-> ""]
Err(e) == [ok |-> FALSE, val |-> None, err |-> e]

Max(a, b) == IF a >= b THEN a ELSE b

-----------------------------------------------------------------------------
(* Integer <-> text, as i64's Display and FromStr do it *)

DigitChars == <<"0", "1", "2", "3", "4", "5", "6", "7", "8", "9">>
IsDigit(c) == \E i \in 1..10 : DigitChars[i] = c
DigitVal(c) == (CHOOSE i \in 1..10 : DigitChars[i] = c) - 1

RECURSIVE FormatNat(_)
FormatNat(n) ==
    IF n < 10 THEN <<DigitChars[n + 1]>>
    ELSE Append(FormatNat(n \div 10), DigitChars[(n % 10) + 1])

\* write!(f, "{}", expiry) for an i64
FormatI64(n) == IF n < 0 THEN <<"-">> \o FormatNat(-n) ELSE FormatNat(n)

\* i64, scaled to a word of WordBits bits: the values MinI64..MaxI64
WordBits == 12
MaxI64 == 2^(WordBits - 1) - 1
MinI64 == -(2^(WordBits - 1))
InI64(n) == MinI64 <= n /\ n <= MaxI64

\* What arithmetic that does not check for overflow leaves in an i64
Wrap(n) == ((n - MinI64) % 2^WordBits) + MinI64

RECURSIVE ParseDigits(_, _)
ParseDigits(s, acc) ==
    IF s = <<>> THEN Some(acc)
    ELSE IF IsDigit(Head(s)) THEN ParseDigits(Tail(s), acc * 10 + DigitVal(Head(s)))
    ELSE None

\* str::parse::<i64>(): an optional sign, then at least one digit, nothing else.
\* A number out of i64's range is an error.
ParseI64(s) ==
    LET n == IF s = <<>> THEN None
             ELSE IF Head(s) = "-" THEN
                 IF Tail(s) = <<>> THEN None
                 ELSE LET p == ParseDigits(Tail(s), 0)
                      IN IF IsSome(p) THEN Some(-Unwrap(p)) ELSE None
             ELSE IF Head(s) = "+" THEN
                 IF Tail(s) = <<>> THEN None ELSE ParseDigits(Tail(s), 0)
             ELSE ParseDigits(s, 0)
    IN IF IsSome(n) /\ InI64(Unwrap(n)) THEN n ELSE None

\* str::parse::<usize>(): as i64, but a leading "-" is no number.
ParseUsize(s) ==
    IF s = <<>> THEN None
    ELSE IF Head(s) = "+" THEN
        IF Tail(s) = <<>> THEN None ELSE ParseDigits(Tail(s), 0)
    ELSE ParseDigits(s, 0)

IsSpace(c) == c \in {" ", "\n", "\t", "\r"}

RECURSIVE TrimStart(_)
TrimStart(s) == IF s # <<>> /\ IsSpace(Head(s)) THEN TrimStart(Tail(s)) ELSE s

RECURSIVE TrimEnd(_)
TrimEnd(s) ==
    IF s # <<>> /\ IsSpace(s[Len(s)]) THEN TrimEnd(SubSeq(s, 1, Len(s) - 1)) ELSE s

\* str::trim()
Trim(s) == TrimEnd(TrimStart(s))

-----------------------------------------------------------------------------
(* The session file *)

SecondsPerMinute == 60
DefaultTtl == 30

\* A session_status that takes a file it cannot read as a number for a
\* session with a second left.
session_status_fail_open(file, t) ==
    IF ~IsSome(file) THEN Ok(None)
    ELSE LET expiry == ParseI64(Trim(Unwrap(file))) IN
         IF ~IsSome(expiry) THEN Ok(Some(1))
         ELSE Ok(Some(Unwrap(expiry) - t))

\* session_status(): Ok(None) without a file, Err when the text is no i64,
\* else Ok(Some(expiry - now)).
session_status(file, t) ==
    IF ~IsSome(file) THEN Ok(None)
    ELSE LET expiry == ParseI64(Trim(Unwrap(file))) IN
         IF ~IsSome(expiry) THEN Err("ParseIntError")
         ELSE Ok(Some(Unwrap(expiry) - t))

\* A gate that still lets a command through in the second the session expires.
ensure_authenticated_at_expiry(file, t) ==
    LET st == session_status(file, t) IN
    IF ~st.ok THEN Err("StatusFailed")
    ELSE IF ~IsSome(st.val) THEN Err("Unauthenticated")
    ELSE IF Unwrap(st.val) < 0 THEN Err("SessionExpired")
    ELSE Ok(None)

\* ensure_authenticated(): the gate every vault command passes first.
ensure_authenticated(file, t) ==
    LET st == session_status(file, t) IN
    IF ~st.ok THEN Err("StatusFailed")
    ELSE IF ~IsSome(st.val) THEN Err("Unauthenticated")
    ELSE IF Unwrap(st.val) <= 0 THEN Err("SessionExpired")
    ELSE Ok(None)

\* A start_session that takes the ttl for seconds.
start_session_seconds(t, ttl_minutes) == Some(FormatI64(t + ttl_minutes))

\* start_session(ttl_minutes): the text the file holds afterwards. The sum
\* now + ttl_minutes * 60 is plain i64 arithmetic: out of range, it wraps in
\* a build without overflow checks.
start_session(t, ttl_minutes) ==
    Some(FormatI64(Wrap(t + ttl_minutes * SecondsPerMinute)))

\* The multiplication or the addition of start_session leaves i64's range
\* (t >= 0 and ttl_minutes >= 1: the sum is out of range when the product is).
ExpiryOverflows(t, ttl_minutes) == ~InI64(t + ttl_minutes * SecondsPerMinute)

\* An end_session that removes the file only when it holds an expiry.
end_session_if_valid(file) ==
    IF IsSome(file) /\ ~IsSome(ParseI64(Trim(Unwrap(file)))) THEN file ELSE None

\* end_session(): the file is removed when it exists.
end_session(file) == None

-----------------------------------------------------------------------------
(* KeyDeriver and FieldCipher.  HKDF and ChaCha20-Poly1305 are ideal: a key *)
(* is the pair it was derived from, and a sealed blob names its key, its    *)
(* nonce and its plaintext; it opens under that key and no other.           *)

\* The text of a password column: base64 of nonce || ciphertext, or any other text.
Sealed(key, nonce, pt) == [sealed |-> TRUE, key |-> key, nonce |-> nonce, pt |-> pt]
PlainText(s) == [sealed |-> FALSE, key |-> <<>>, nonce |-> 0, pt |-> s]

\* A derive_key_for_id whose HKDF takes no salt.
derive_key_for_id_unsalted(env, id) ==
    IF ~IsSome(env) THEN Err("MissingSecret")
    ELSE Ok(<<<<>>, Unwrap(env), "password-at-rest">>)

\* derive_key_for_id(id): env is AUTH_SECRET in the invocation's environment.
derive_key_for_id(env, id) ==
    IF ~IsSome(env) THEN Err("MissingSecret")
    ELSE Ok(<<id, Unwrap(env), "password-at-rest">>)

\* An encrypt_for_id that seals every password under one key, whatever the id.
encrypt_for_id_one_key(env, id, plaintext, nonce) ==
    LET key == derive_key_for_id(env, <<>>) IN
    IF ~key.ok THEN key
    ELSE Ok(Sealed(key.val, nonce, plaintext))

\* An encrypt_for_id that leaves the nonce buffer as it was initialised.
encrypt_for_id_zero_nonce(env, id, plaintext, nonce) ==
    LET key == derive_key_for_id(env, id) IN
    IF ~key.ok THEN key
    ELSE Ok(Sealed(key.val, 0, plaintext))

\* encrypt_for_id(id, plaintext), with the nonce OsRng drew.
encrypt_for_id(env, id, plaintext, nonce) ==
    LET key == derive_key_for_id(env, id) IN
    IF ~key.ok THEN key
    ELSE Ok(Sealed(key.val, nonce, plaintext))

\* A decrypt_for_id that expands the key under another info label.
decrypt_for_id_other_label(env, id, b64) ==
    IF ~b64.sealed THEN Err("MalformedCiphertext")
    ELSE LET key == derive_key_for_id(env, id) IN
         IF ~key.ok THEN key
         ELSE IF <<key.val[1], key.val[2], "password">> # b64.key THEN Err("DecryptFailure")
         ELSE Ok(b64.pt)

\* decrypt_for_id(id, b64)
decrypt_for_id(env, id, b64) ==
    IF ~b64.sealed THEN Err("MalformedCiphertext")
    ELSE LET key == derive_key_for_id(env, id) IN
         IF ~key.ok THEN key
         ELSE IF key.val # b64.key THEN Err("DecryptFailure")
         ELSE Ok(b64.pt)

-----------------------------------------------------------------------------
(* generate_password *)

UPPER == <<"A", "Z">>
LOWER == <<"a", "z">>
DIGIT == <<"0", "9">>

\* generate_password(len): one character of each category while there is room,
\* the rest from the whole alphabet, then a shuffle.  pick is what rand_index
\* returned for the categories (1 or 2, the two characters kept of each),
\* and rev whether the shuffle reversed the bytes (the two shuffles kept).
generate_password(len, pick, rev) ==
    IF len = 0 THEN <<>>
    ELSE LET alphabet == UPPER \o LOWER \o DIGIT
             bytes == [i \in 1..len |->
                         IF i = 1 THEN UPPER[pick]
                         ELSE IF i = 2 THEN LOWER[pick]
                         ELSE IF i = 3 THEN DIGIT[pick]
                         ELSE alphabet[((i + pick) % Len(alphabet)) + 1]]
         IN IF rev THEN [i \in 1..len |-> bytes[len + 1 - i]] ELSE bytes

-----------------------------------------------------------------------------
(* The passwords table *)

\* What the invocation draws at random: uuid (Uuid::new_v4), nonce (OsRng),
\* pick and rev (generate_password).
Draw(uuid, nonce, pick, rev) == [uuid |-> uuid, nonce |-> nonce, pick |-> pick, rev |-> rev]

PasswordRecord(id, url, username, password, title, note, created_at) ==
    [id |-> id, url |-> url, username |-> username, password |-> password,
     title |-> title, note |-> note, created_at |-> created_at]

\* SELECT ... WHERE url = ?1 ORDER BY created_at DESC LIMIT 1
LatestByUrl(db, url) ==
    LET rows == {r \in db : r.url = url} IN
    IF rows = {} THEN None
    ELSE Some(CHOOSE r \in rows : \A q \in rows : q.created_at <= r.created_at)

\* An insert_password whose upsert is UPDATE ... WHERE url = ?: every entry
\* of the url is written.
insert_password_by_url(db, env, url, username, password, title, note, rnd, ts) ==
    LET found == LatestByUrl(db, url) IN
    IF IsSome(found) THEN
        LET existing == Unwrap(found)
            new_title == OrElse(title, existing.title)
            new_note == OrElse(note, existing.note)
            enc_pw == encrypt_for_id(env, existing.id, password, rnd.nonce)
        IN IF ~enc_pw.ok THEN [ok |-> FALSE, err |-> enc_pw.err, db |-> db, inserted |-> FALSE]
           ELSE [ok |-> TRUE, err |-> "",
                 db |-> {IF r.url = url
                         THEN [r EXCEPT !.username = username,
                                        !.password = encrypt_for_id(env, r.id, password, rnd.nonce).val,
                                        !.title = new_title, !.note = new_note]
                         ELSE r : r \in db},
                 inserted |-> FALSE]
    ELSE
        LET id == rnd.uuid
            enc_pw == encrypt_for_id(env, id, password, rnd.nonce)
        IN IF ~enc_pw.ok THEN [ok |-> FALSE, err |-> enc_pw.err, db |-> db, inserted |-> FALSE]
           ELSE [ok |-> TRUE, err |-> "",
                 db |-> db \cup {PasswordRecord(id, url, username, enc_pw.val, title, note, ts)},
                 inserted |-> TRUE]

\* An insert_password whose upsert stores the title and the note it was given,
\* also when it was given none.
insert_password_clearing(db, env, url, username, password, title, note, rnd, ts) ==
    LET found == LatestByUrl(db, url) IN
    IF IsSome(found) THEN
        LET existing == Unwrap(found)
            enc_pw == encrypt_for_id(env, existing.id, password, rnd.nonce)
        IN IF ~enc_pw.ok THEN [ok |-> FALSE, err |-> enc_pw.err, db |-> db, inserted |-> FALSE]
           ELSE [ok |-> TRUE, err |-> "",
                 db |-> {IF r.id = existing.id
                         THEN [r EXCEPT !.username = username, !.password = enc_pw.val,
                                        !.title = title, !.note = note]
                         ELSE r : r \in db},
                 inserted |-> FALSE]
    ELSE
        LET enc_pw == encrypt_for_id(env, rnd.uuid, password, rnd.nonce)
        IN IF ~enc_pw.ok THEN [ok |-> FALSE, err |-> enc_pw.err, db |-> db, inserted |-> FALSE]
           ELSE [ok |-> TRUE, err |-> "",
                 db |-> db \cup {PasswordRecord(rnd.uuid, url, username, enc_pw.val, title, note, ts)},
                 inserted |-> TRUE]

\* insert_password(db, url, username, password, title, note): the table afterwards
\* and the record returned, or the error (the table is then as it was).
insert_password(db, env, url, username, password, title, note, rnd, ts) ==
    LET found == LatestByUrl(db, url) IN
    IF IsSome(found) THEN
        LET existing == Unwrap(found)
            new_title == OrElse(title, existing.title)
            new_note == OrElse(note, existing.note)
            enc_pw == encrypt_for_id(env, existing.id, password, rnd.nonce)
        IN IF ~enc_pw.ok THEN [ok |-> FALSE, err |-> enc_pw.err, db |-> db, inserted |-> FALSE]
           ELSE [ok |-> TRUE, err |-> "",
                 db |-> {IF r.id = existing.id
                         THEN [r EXCEPT !.username = username, !.password = enc_pw.val,
                                        !.title = new_title, !.note = new_note]
                         ELSE r : r \in db},
                 inserted |-> FALSE]
    ELSE
        LET id == rnd.uuid
            enc_pw == encrypt_for_id(env, id, password, rnd.nonce)
        IN IF ~enc_pw.ok THEN [ok |-> FALSE, err |-> enc_pw.err, db |-> db, inserted |-> FALSE]
           ELSE [ok |-> TRUE, err |-> "",
                 db |-> db \cup {PasswordRecord(id, url, username, enc_pw.val, title, note, ts)},
                 inserted |-> TRUE]

\* An update_entry that takes an empty title or note for "none".
update_entry_nulling(db, env, id, url, username, password, title, note, rnd) ==
    LET rows == {r \in db : r.id = id} IN
    IF rows = {} THEN [ok |-> FALSE, err |-> "NotFound", db |-> db]
    ELSE
        LET current == CHOOSE r \in rows : TRUE
            enc_pw == IF IsSome(password)
                      THEN encrypt_for_id(env, current.id, Unwrap(password), rnd.nonce)
                      ELSE Ok(current.password)
        IN IF ~enc_pw.ok THEN [ok |-> FALSE, err |-> enc_pw.err, db |-> db]
           ELSE LET updated ==
                        [current EXCEPT
                            !.url = IF IsSome(url) THEN Unwrap(url) ELSE @,
                            !.username = IF IsSome(username) THEN Unwrap(username) ELSE @,
                            !.password = enc_pw.val,
                            !.title = IF title = Some(<<>>) THEN None
                                      ELSE IF IsSome(title) THEN title ELSE @,
                            !.note = IF note = Some(<<>>) THEN None
                                     ELSE IF IsSome(note) THEN note ELSE @]
                IN [ok |-> TRUE, err |-> "",
                    db |-> {IF r.id = id THEN updated ELSE r : r \in db}]

\* An update_entry that writes every column, supplied or not.
update_entry_overwriting(db, env, id, url, username, password, title, note, rnd) ==
    LET rows == {r \in db : r.id = id} IN
    IF rows = {} THEN [ok |-> FALSE, err |-> "NotFound", db |-> db]
    ELSE
        LET current == CHOOSE r \in rows : TRUE
            enc_pw == IF IsSome(password)
                      THEN encrypt_for_id(env, current.id, Unwrap(password), rnd.nonce)
                      ELSE Ok(current.password)
        IN IF ~enc_pw.ok THEN [ok |-> FALSE, err |-> enc_pw.err, db |-> db]
           ELSE LET updated ==
                        [current EXCEPT
                            !.url = IF IsSome(url) THEN Unwrap(url) ELSE @,
                            !.username = IF IsSome(username) THEN Unwrap(username) ELSE @,
                            !.password = enc_pw.val,
                            !.title = title,
                            !.note = note]
                IN [ok |-> TRUE, err |-> "",
                    db |-> {IF r.id = id THEN updated ELSE r : r \in db}]

\* An update_entry that writes the row whether or not the id is there.
update_entry_upserting(db, env, id, url, username, password, title, note, rnd) ==
    LET rows == {r \in db : r.id = id}
        enc_new == encrypt_for_id(env, id, IF IsSome(password) THEN Unwrap(password) ELSE <<>>,
                                  rnd.nonce)
    IN
    IF rows = {} THEN
        IF ~enc_new.ok THEN [ok |-> FALSE, err |-> enc_new.err, db |-> db]
        ELSE [ok |-> TRUE, err |-> "",
              db |-> db \cup {PasswordRecord(id, IF IsSome(url) THEN Unwrap(url) ELSE <<>>,
                                             IF IsSome(username) THEN Unwrap(username) ELSE <<>>,
                                             enc_new.val, title, note, 0)}]
    ELSE
        LET current == CHOOSE r \in rows : TRUE
            enc_pw == IF IsSome(password)
                      THEN encrypt_for_id(env, current.id, Unwrap(password), rnd.nonce)
                      ELSE Ok(current.password)
        IN IF ~enc_pw.ok THEN [ok |-> FALSE, err |-> enc_pw.err, db |-> db]
           ELSE LET updated ==
                        [current EXCEPT
                            !.url = IF IsSome(url) THEN Unwrap(url) ELSE @,
                            !.username = IF IsSome(username) THEN Unwrap(username) ELSE @,
                            !.password = enc_pw.val,
                            !.title = IF IsSome(title) THEN title ELSE @,
                            !.note = IF IsSome(note) THEN note ELSE @]
                IN [ok |-> TRUE, err |-> "",
                    db |-> {IF r.id = id THEN updated ELSE r : r \in db}]

\* An update_entry that writes the row back as a new one, created now.
update_entry_recreating(db, env, id, url, username, password, title, note, rnd) ==
    LET rows == {r \in db : r.id = id} IN
    IF rows = {} THEN [ok |-> FALSE, err |-> "NotFound", db |-> db]
    ELSE
        LET current == CHOOSE r \in rows : TRUE
            enc_pw == IF IsSome(password)
                      THEN encrypt_for_id(env, current.id, Unwrap(password), rnd.nonce)
                      ELSE Ok(current.password)
        IN IF ~enc_pw.ok THEN [ok |-> FALSE, err |-> enc_pw.err, db |-> db]
           ELSE LET updated ==
                        [current EXCEPT
                            !.url = IF IsSome(url) THEN Unwrap(url) ELSE @,
                            !.username = IF IsSome(username) THEN Unwrap(username) ELSE @,
                            !.password = enc_pw.val,
                            !.title = IF IsSome(title) THEN title ELSE @,
                            !.note = IF IsSome(note) THEN note ELSE @,
                            !.created_at = @ + 1]
                IN [ok |-> TRUE, err |-> "",
                    db |-> {IF r.id = id THEN updated ELSE r : r \in db}]

\* update_entry(db, id, url, username, password, title, note)
update_entry(db, env, id, url, username, password, title, note, rnd) ==
    LET rows == {r \in db : r.id = id} IN
    IF rows = {} THEN [ok |-> FALSE, err |-> "NotFound", db |-> db]
    ELSE
        LET current == CHOOSE r \in rows : TRUE
            enc_pw == IF IsSome(password)
                      THEN encrypt_for_id(env, current.id, Unwrap(password), rnd.nonce)
                      ELSE Ok(current.password)
        IN IF ~enc_pw.ok THEN [ok |-> FALSE, err |-> enc_pw.err, db |-> db]
           ELSE LET updated ==
                        [current EXCEPT
                            !.url = IF IsSome(url) THEN Unwrap(url) ELSE @,
                            !.username = IF IsSome(username) THEN Unwrap(username) ELSE @,
                            !.password = enc_pw.val,
                            !.title = IF IsSome(title) THEN title ELSE @,
                            !.note = IF IsSome(note) THEN note ELSE @]
                IN [ok |-> TRUE, err |-> "",
                    db |-> {IF r.id = id THEN updated ELSE r : r \in db}]

\* delete_entry(db, id): DELETE ... WHERE id = ?1, whatever it matched
delete_entry(db, id) == {r \in db : r.id # id}

-----------------------------------------------------------------------------
(* Text helpers for the queries *)

\* The characters of the model's strings, in ASCII order.
Ascii == <<"\t", "\n", "\r", " ", "%", "+", ",", "-", ".", "0", "1", "2", "3",
         "4", "5", "6", "7", "8", "9", "A", "B", "C", "D", "E", "F", "G",
         "H", "I", "J", "K", "L", "M", "N", "O", "P", "Q", "R", "S", "T",
         "U", "V", "W", "X", "Y", "Z", "_", "a", "b", "c", "d", "e", "f",
         "g", "h", "i", "j", "k", "l", "m", "n", "o", "p", "q", "r", "s",
         "t", "u", "v", "w", "x", "y", "z">>
CharOrd(c) == CHOOSE i \in 1..Len(Ascii) : Ascii[i] = c

\* str's Ord: byte-wise lexicographic
RECURSIVE StrLess(_, _)
StrLess(a, b) ==
    IF b = <<>> THEN FALSE
    ELSE IF a = <<>> THEN TRUE
    ELSE IF Head(a) = Head(b) THEN StrLess(Tail(a), Tail(b))
    ELSE CharOrd(Head(a)) < CharOrd(Head(b))

UpperCase == <<"A", "B", "C", "D", "E", "F", "G", "H", "I", "J", "K", "L", "M",
             "N", "O", "P", "Q", "R", "S", "T", "U", "V", "W", "X", "Y", "Z">>
LowerCase == <<"a", "b", "c", "d", "e", "f", "g", "h", "i", "j", "k", "l", "m",
             "n", "o", "p", "q", "r", "s", "t", "u", "v", "w", "x", "y", "z">>

\* SQLite's LIKE folds the case of the ASCII letters.
Fold(c) ==
    IF \E i \in 1..Len(LowerCase) : LowerCase[i] = c
    THEN UpperCase[CHOOSE i \in 1..Len(LowerCase) : LowerCase[i] = c]
    ELSE c

\* text LIKE pattern: % matches any run of characters, _ any one character.
RECURSIVE Like(_, _)
Like(text, pattern) ==
    IF pattern = <<>> THEN text = <<>>
    ELSE IF Head(pattern) = "%" THEN
        \/ Like(text, Tail(pattern))
        \/ text # <<>> /\ Like(Tail(text), pattern)
    ELSE /\ text # <<>>
         /\ Head(pattern) = "_" \/ Fold(Head(pattern)) = Fold(Head(text))
         /\ Like(Tail(text), Tail(pattern))

\* IFNULL(column, '')
IfNull(o) == IF IsSome(o) THEN Unwrap(o) ELSE <<>>

\* ORDER BY created_at ASC | created_at DESC, and sort_by(|a, b| b.id.cmp(&a.id))
Before(order, a, b) ==
    CASE order = "created_at ASC" -> a.created_at < b.created_at
      [] order = "created_at DESC" -> a.created_at > b.created_at
      [] order = "id DESC" -> StrLess(b.id, a.id)

\* The rows of a set as a sequence in an order (no two rows share the key).
RECURSIVE Ordered(_, _)
Ordered(rows, order) ==
    IF rows = {} THEN <<>>
    ELSE LET first == CHOOSE r \in rows : \A q \in rows \ {r} : Before(order, r, q)
         IN <<first>> \o Ordered(rows \ {first}, order)

\* A table scan without ORDER BY returns the rows in rowid order: the order of
\* insertion, which is the order of created_at.
Scan(rows) == Ordered(rows, "created_at ASC")

-----------------------------------------------------------------------------
(* Reading the passwords table *)

\* A read that shows the empty text for a password that does not open.
Shown_or_default(env, id, enc_pw) ==
    LET pw == decrypt_for_id(env, id, enc_pw) IN
    IF pw.ok THEN PlainText(pw.val) ELSE PlainText(<<>>)

\* decrypt_for_id(&id, &enc_pw).unwrap_or(enc_pw): the text shown for a password
Shown(env, id, enc_pw) ==
    LET pw == decrypt_for_id(env, id, enc_pw) IN
    IF pw.ok THEN PlainText(pw.val) ELSE enc_pw

\* fetch_by_url(db, url)
fetch_by_url(db, env, url) ==
    LET rows == Scan({r \in db : r.url = url}) IN
    [i \in 1..Len(rows) |->
        [username |-> rows[i].username,
         password |-> Shown(env, rows[i].id, rows[i].password),
         title |-> rows[i].title, note |-> rows[i].note]]

\* search_entries(db, keyword)
search_entries(db, env, keyword) ==
    LET like == <<"%">> \o keyword \o <<"%">>
        hit(r) == \/ Like(r.id, like) \/ Like(r.url, like) \/ Like(r.username, like)
                  \/ Like(IfNull(r.title), like) \/ Like(IfNull(r.note), like)
        rows == Ordered({r \in db : hit(r)}, "id DESC")
    IN [i \in 1..Len(rows) |->
           [id |-> rows[i].id, url |-> rows[i].url, username |-> rows[i].username,
            password |-> Shown(env, rows[i].id, rows[i].password),
            title |-> rows[i].title, note |-> rows[i].note]]

\* A CSV file: the header record and the records after it.
CsvFile(headers, records) == [headers |-> headers, records |-> records]

H_id == <<"i", "d">>
H_url == <<"u", "r", "l">>
H_username == <<"u", "s", "e", "r", "n", "a", "m", "e">>
H_password == <<"p", "a", "s", "s", "w", "o", "r", "d">>
H_title == <<"t", "i", "t", "l", "e">>
H_note == <<"n", "o", "t", "e">>
H_created_at == <<"c", "r", "e", "a", "t", "e", "d", "_", "a", "t">>

\* export_csv(db, path): the file written.  A password field is the shown text;
\* created_at is written as its instant.
export_csv(db, env) ==
    LET rows == Ordered(db, "created_at DESC") IN
    CsvFile(<<H_id, H_url, H_username, H_password, H_title, H_note, H_created_at>>,
            [i \in 1..Len(rows) |->
                <<rows[i].id, rows[i].url, rows[i].username,
                  Shown(env, rows[i].id, rows[i].password),
                  IfNull(rows[i].title), IfNull(rows[i].note), rows[i].created_at>>])

\* rec.get(i), i counted from 0
Field(rec, i) == IF i + 1 <= Len(rec) THEN Some(rec[i + 1]) ELSE None

\* headers.iter().position(|h| h == name).and_then(|i| rec.get(i))
ByName(headers, rec, name) ==
    LET at == {i \in 1..Len(headers) : headers[i] = name} IN
    IF at = {} THEN None
    ELSE Field(rec, (CHOOSE i \in at : \A j \in at : i <= j) - 1)

\* An import_csv in a transaction: when a record fails, the table is as it
\* was before the first record.
RECURSIVE import_csv_rolling_back(_, _, _, _, _, _)
import_csv_rolling_back(db, env, headers, records, rnds, ts) ==
    IF records = <<>> THEN [ok |-> TRUE, err |-> "", db |-> db, ts |-> ts]
    ELSE
        LET rec == Head(records)
            url == OrElse(ByName(headers, rec, H_url), Field(rec, 0))
            username == OrElse(ByName(headers, rec, H_username), Field(rec, 1))
            password == OrElse(ByName(headers, rec, H_password), Field(rec, 2))
            title == OrElse(ByName(headers, rec, H_title), Field(rec, 3))
            note == OrElse(ByName(headers, rec, H_note), Field(rec, 4))
        IN
        IF Len(rec) # Len(headers) THEN [ok |-> FALSE, err |-> "UnequalLengths", db |-> db, ts |-> ts]
        ELSE IF ~IsSome(url) \/ ~IsSome(username) \/ ~IsSome(password)
        THEN [ok |-> FALSE, err |-> "ImportRowInvalid", db |-> db, ts |-> ts]
        ELSE LET res == insert_password(db, env, Unwrap(url), Unwrap(username),
                                        Unwrap(password), title, note, Head(rnds), ts)
                 rest == import_csv_rolling_back(res.db, env, headers, Tail(records), Tail(rnds),
                                                 IF res.inserted THEN ts + 1 ELSE ts)
             IN IF ~res.ok THEN [ok |-> FALSE, err |-> res.err, db |-> db, ts |-> ts]
                ELSE IF ~rest.ok THEN [rest EXCEPT !.db = db, !.ts = ts]
                ELSE rest

\* An import_csv that passes over a record it cannot use and goes on.
RECURSIVE import_csv_skipping(_, _, _, _, _, _)
import_csv_skipping(db, env, headers, records, rnds, ts) ==
    IF records = <<>> THEN [ok |-> TRUE, err |-> "", db |-> db, ts |-> ts]
    ELSE
        LET rec == Head(records)
            url == OrElse(ByName(headers, rec, H_url), Field(rec, 0))
            username == OrElse(ByName(headers, rec, H_username), Field(rec, 1))
            password == OrElse(ByName(headers, rec, H_password), Field(rec, 2))
            title == OrElse(ByName(headers, rec, H_title), Field(rec, 3))
            note == OrElse(ByName(headers, rec, H_note), Field(rec, 4))
            rest == import_csv_skipping(db, env, headers, Tail(records), Tail(rnds), ts)
        IN
        IF Len(rec) # Len(headers) THEN [rest EXCEPT !.ok = FALSE, !.err = "UnequalLengths"]
        ELSE IF ~IsSome(url) \/ ~IsSome(username) \/ ~IsSome(password)
        THEN [rest EXCEPT !.ok = FALSE, !.err = "ImportRowInvalid"]
        ELSE LET res == insert_password(db, env, Unwrap(url), Unwrap(username),
                                        Unwrap(password), title, note, Head(rnds), ts)
             IN IF ~res.ok THEN [ok |-> FALSE, err |-> res.err, db |-> db, ts |-> ts]
                ELSE import_csv_skipping(res.db, env, headers, Tail(records), Tail(rnds),
                                         IF res.inserted THEN ts + 1 ELSE ts)

\* import_csv(db, path): the records are replayed through insert_password, one
\* draw each, until one fails; the rows already written stay.
RECURSIVE import_csv(_, _, _, _, _, _)
import_csv(db, env, headers, records, rnds, ts) ==
    IF records = <<>> THEN [ok |-> TRUE, err |-> "", db |-> db, ts |-> ts]
    ELSE
        LET rec == Head(records)
            url == OrElse(ByName(headers, rec, H_url), Field(rec, 0))
            username == OrElse(ByName(headers, rec, H_username), Field(rec, 1))
            password == OrElse(ByName(headers, rec, H_password), Field(rec, 2))
            title == OrElse(ByName(headers, rec, H_title), Field(rec, 3))
            note == OrElse(ByName(headers, rec, H_note), Field(rec, 4))
        IN
        \* the reader is not flexible: a record of another length than the header's
        IF Len(rec) # Len(headers) THEN [ok |-> FALSE, err |-> "UnequalLengths", db |-> db, ts |-> ts]
        ELSE IF ~IsSome(url) \/ ~IsSome(username) \/ ~IsSome(password)
        THEN [ok |-> FALSE, err |-> "ImportRowInvalid", db |-> db, ts |-> ts]
        ELSE LET res == insert_password(db, env, Unwrap(url), Unwrap(username),
                                        Unwrap(password), title, note, Head(rnds), ts)
             IN IF ~res.ok THEN [ok |-> FALSE, err |-> res.err, db |-> db, ts |-> ts]
                ELSE import_csv(res.db, env, headers, Tail(records), Tail(rnds),
                                IF res.inserted THEN ts + 1 ELSE ts)

-----------------------------------------------------------------------------
(* The passkeys table *)

PasskeyRecord(id, rp_id, credential_id, user_handle, public_key, sign_count, title, transports, created_at) ==
    [id |-> id, rp_id |-> rp_id, credential_id |-> credential_id,
     user_handle |-> user_handle, public_key |-> public_key, sign_count |-> sign_count,
     title |-> title, transports |-> transports, created_at |-> created_at]

\* An insert_passkey that keeps one row for each (rp_id, user_handle).
insert_passkey_merging(db, rp_id, credential_id, user_handle, public_key, sign_count, title, transports, uuid, ts) ==
    {r \in db : r.rp_id # rp_id \/ r.user_handle # user_handle}
        \cup {PasskeyRecord(uuid, rp_id, credential_id, user_handle, public_key,
                            sign_count, title, transports, ts)}

\* insert_passkey(db, ...): always a new row, whose id is the uuid drawn
insert_passkey(db, rp_id, credential_id, user_handle, public_key, sign_count, title, transports, uuid, ts) ==
    db \cup {PasskeyRecord(uuid, rp_id, credential_id, user_handle, public_key,
                           sign_count, title, transports, ts)}

\* A get_passkeys_by_user that selects by rp_id alone.
get_passkeys_by_rp(db, rp_id, user_handle) == Scan({r \in db : r.rp_id = rp_id})

\* get_passkeys_by_user(db, rp_id, user_handle)
get_passkeys_by_user(db, rp_id, user_handle) ==
    Scan({r \in db : r.rp_id = rp_id /\ r.user_handle = user_handle})

\* search_passkeys(db, keyword)
search_passkeys(db, keyword) ==
    LET like == <<"%">> \o keyword \o <<"%">>
        hit(r) == \/ Like(r.id, like) \/ Like(r.rp_id, like) \/ Like(r.credential_id, like)
                  \/ Like(r.user_handle, like) \/ Like(IfNull(r.title), like)
                  \/ Like(IfNull(r.transports), like)
    IN Ordered({r \in db : hit(r)}, "id DESC")

\* A delete_passkey that deletes by the lookup key of the row with the id.
delete_passkey_by_user(db, id) ==
    IF \E r \in db : r.id = id
    THEN [ok |-> TRUE, err |-> "",
          db |-> {r \in db : \A d \in db :
                      d.id = id => r.rp_id # d.rp_id \/ r.user_handle # d.user_handle}]
    ELSE [ok |-> FALSE, err |-> "NotFound", db |-> db]

\* A delete_passkey that does not look at the number of rows deleted.
delete_passkey_lenient(db, id) == [ok |-> TRUE, err |-> "", db |-> {r \in db : r.id # id}]

\* delete_passkey(db, id): an error when DELETE matched no row
delete_passkey(db, id) ==
    IF \E r \in db : r.id = id
    THEN [ok |-> TRUE, err |-> "", db |-> {r \in db : r.id # id}]
    ELSE [ok |-> FALSE, err |-> "NotFound", db |-> db]

H_rp_id == <<"r", "p", "_", "i", "d">>
H_credential_id == <<"c", "r", "e", "d", "e", "n", "t", "i", "a", "l", "_", "i", "d">>
H_user_handle == <<"u", "s", "e", "r", "_", "h", "a", "n", "d", "l", "e">>
H_public_key == <<"p", "u", "b", "l", "i", "c", "_", "k", "e", "y">>
H_sign_count == <<"s", "i", "g", "n", "_", "c", "o", "u", "n", "t">>
H_transports == <<"t", "r", "a", "n", "s", "p", "o", "r", "t", "s">>

\* export_passkeys_csv(db, path): the file written
export_passkeys_csv(db) ==
    LET rows == Ordered(db, "created_at DESC") IN
    CsvFile(<<H_id, H_rp_id, H_credential_id, H_user_handle, H_public_key,
              H_sign_count, H_title, H_transports, H_created_at>>,
            [i \in 1..Len(rows) |->
                <<rows[i].id, rows[i].rp_id, rows[i].credential_id, rows[i].user_handle,
                  rows[i].public_key, FormatI64(rows[i].sign_count),
                  IfNull(rows[i].title), IfNull(rows[i].transports), rows[i].created_at>>])

\* import_passkeys_csv(db, path): one insert_passkey for each record, one uuid each
RECURSIVE import_passkeys_csv(_, _, _, _, _)
import_passkeys_csv(db, headers, records, uuids, ts) ==
    IF records = <<>> THEN [ok |-> TRUE, err |-> "", db |-> db, ts |-> ts]
    ELSE
        LET rec == Head(records)
            rp_id == OrElse(ByName(headers, rec, H_rp_id), Field(rec, 0))
            credential_id == OrElse(ByName(headers, rec, H_credential_id), Field(rec, 1))
            user_handle == OrElse(ByName(headers, rec, H_user_handle), Field(rec, 2))
            public_key == OrElse(ByName(headers, rec, H_public_key), Field(rec, 3))
            count_text == OrElse(ByName(headers, rec, H_sign_count), Field(rec, 4))
            parsed == IF IsSome(count_text) THEN ParseI64(Unwrap(count_text)) ELSE None
            sign_count == IF IsSome(parsed) THEN Unwrap(parsed) ELSE 0
            title == OrElse(ByName(headers, rec, H_title), Field(rec, 5))
            transports == OrElse(ByName(headers, rec, H_transports), Field(rec, 6))
        IN
        IF Len(rec) # Len(headers) THEN [ok |-> FALSE, err |-> "UnequalLengths", db |-> db, ts |-> ts]
        ELSE IF ~IsSome(rp_id) \/ ~IsSome(credential_id) \/ ~IsSome(user_handle) \/ ~IsSome(public_key)
        THEN [ok |-> FALSE, err |-> "ImportRowInvalid", db |-> db, ts |-> ts]
        ELSE import_passkeys_csv(
                 insert_passkey(db, Unwrap(rp_id), Unwrap(credential_id), Unwrap(user_handle),
                                Unwrap(public_key), sign_count, title, transports,
                                Head(uuids), ts),
                 headers, Tail(records), Tail(uuids), ts + 1)

-----------------------------------------------------------------------------
(* main(): the command handlers.  env is AUTH_SECRET in the environment of  *)
(* the invocation, args the arguments after the command's name, rnd what    *)
(* the invocation draws at random.                                          *)

F_ttl == <<"-", "-", "t", "t", "l">>
F_title == <<"-", "-", "t", "i", "t", "l", "e">>
F_note == <<"-", "-", "n", "o", "t", "e">>
F_url == <<"-", "-", "u", "r", "l">>
F_user == <<"-", "-", "u", "s", "e", "r">>
F_password == <<"-", "-", "p", "a", "s", "s", "w", "o", "r", "d">>
F_length == <<"-", "-", "l", "e", "n", "g", "t", "h">>
F_sign_count == <<"-", "-", "s", "i", "g", "n", "-", "c", "o", "u", "n", "t">>
F_transports == <<"-", "-", "t", "r", "a", "n", "s", "p", "o", "r", "t", "s">>

DefaultLength == 16

\* args.next() after a flag, and the arguments left after it
NextArg(rest) == IF Len(rest) >= 2 THEN Some(rest[2]) ELSE None
After(rest) == SubSeq(rest, 3, Len(rest))

\* What an invocation was given: AUTH_SECRET where the command reads it, and
\* the arguments after the command's name.
Invocation(env, args) == [env |-> env, args |-> args]

\* What an invocation reported: exit code, the message, the rows printed.
Out(cmd, exit, msg) == [cmd |-> cmd, exit |-> exit, msg |-> msg, rem |-> 0, rows |-> <<>>]
OutRows(cmd, rows) == [cmd |-> cmd, exit |-> 0, msg |-> "", rem |-> 0, rows |-> rows]

\* "auth": the loop over the flags; --ttl N sets ttl = n.max(1) when N is an i64
RECURSIVE AuthTtl(_, _)
AuthTtl(rest, ttl) ==
    IF rest = <<>> THEN ttl
    ELSE IF Head(rest) = F_ttl THEN
        LET n == IF IsSome(NextArg(rest)) THEN ParseI64(Unwrap(NextArg(rest))) ELSE None
        IN AuthTtl(After(rest), IF IsSome(n) THEN Max(Unwrap(n), 1) ELSE ttl)
    ELSE AuthTtl(Tail(rest), ttl)

\* An auth that never shortens a session: it keeps the later of the expiry
\* the file holds and the one it would write.
AuthCmd_extending(env, args) ==
    /\ argv' = Invocation(env, args)
    /\ UNCHANGED <<now, passwords, passkeys, clock>>
    /\ IF args = <<>> THEN
           /\ out' = Out("auth", 1, "Usage")
           /\ UNCHANGED sessionFile
       ELSE IF ~IsSome(env) THEN
           /\ out' = Out("auth", 1, "MissingSecret")
           /\ UNCHANGED sessionFile
       ELSE IF Head(args) # Unwrap(env) THEN
           /\ out' = Out("auth", 1, "AuthenticationFailed")
           /\ UNCHANGED sessionFile
       ELSE
           LET new == start_session(now, AuthTtl(Tail(args), DefaultTtl))
               old == IF IsSome(sessionFile) THEN ParseI64(Trim(Unwrap(sessionFile))) ELSE None
           IN /\ sessionFile' = IF IsSome(old) /\ Unwrap(old) > Unwrap(ParseI64(Unwrap(new)))
                                THEN sessionFile ELSE new
              /\ out' = Out("auth", 0, "")

\* An auth that ends the session when the secret does not match.
AuthCmd_resetting(env, args) ==
    /\ argv' = Invocation(env, args)
    /\ UNCHANGED <<now, passwords, passkeys, clock>>
    /\ IF args = <<>> THEN
           /\ out' = Out("auth", 1, "Usage")
           /\ UNCHANGED sessionFile
       ELSE IF ~IsSome(env) THEN
           /\ out' = Out("auth", 1, "MissingSecret")
           /\ UNCHANGED sessionFile
       ELSE IF Head(args) # Unwrap(env) THEN
           /\ out' = Out("auth", 1, "AuthenticationFailed")
           /\ sessionFile' = None
       ELSE
           /\ sessionFile' = start_session(now, AuthTtl(Tail(args), DefaultTtl))
           /\ out' = Out("auth", 0, "")

\* tsupasswd auth <secret> [--ttl MINUTES]
AuthCmd(env, args) ==
    /\ argv' = Invocation(env, args)
    /\ UNCHANGED <<now, passwords, passkeys, clock>>
    /\ IF args = <<>> THEN
           /\ out' = Out("auth", 1, "Usage")
           /\ UNCHANGED sessionFile
       ELSE IF ~IsSome(env) THEN
           /\ out' = Out("auth", 1, "MissingSecret")
           /\ UNCHANGED sessionFile
       ELSE IF Head(args) # Unwrap(env) THEN
           /\ out' = Out("auth", 1, "AuthenticationFailed")
           /\ UNCHANGED sessionFile
       ELSE LET ttl == AuthTtl(Tail(args), DefaultTtl) IN
           \/ /\ sessionFile' = start_session(now, ttl)
              /\ out' = Out("auth", 0, "")
           \* a build with overflow checks panics before the file is created
           \/ /\ ExpiryOverflows(now, ttl)
              /\ UNCHANGED sessionFile
              /\ out' = Out("auth", 101, "Panic")

\* tsupasswd logout
LogoutCmd ==
    /\ argv' = Invocation(None, <<>>)
    /\ sessionFile' = end_session(sessionFile)
    /\ out' = Out("logout", 0, "")
    /\ UNCHANGED <<now, passwords, passkeys, clock>>

\* tsupasswd status: Ok(Some(rem)) is reported as authenticated, whatever rem is
StatusCmd ==
    LET st == session_status(sessionFile, now) IN
    /\ argv' = Invocation(None, <<>>)
    /\ out' = IF ~st.ok THEN Out("status", 1, "StatusFailed")
              ELSE IF ~IsSome(st.val) THEN Out("status", 1, "unauthenticated")
              ELSE [Out("status", 0, "authenticated") EXCEPT !.rem = Unwrap(st.val)]
    /\ UNCHANGED <<now, sessionFile, passwords, passkeys, clock>>

\* An "add" that passes the number on as it was parsed.
AddPassword_unclamped(maybe_pw_or_len, rnd) ==
    IF ~IsSome(maybe_pw_or_len) THEN generate_password(DefaultLength, rnd.pick, rnd.rev)
    ELSE LET n == ParseUsize(Unwrap(maybe_pw_or_len)) IN
         IF IsSome(n) THEN generate_password(Unwrap(n), rnd.pick, rnd.rev)
         ELSE Unwrap(maybe_pw_or_len)

\* "add": the third argument is a password, or the length of one to generate
AddPassword(maybe_pw_or_len, rnd) ==
    IF ~IsSome(maybe_pw_or_len) THEN generate_password(DefaultLength, rnd.pick, rnd.rev)
    ELSE LET n == ParseUsize(Unwrap(maybe_pw_or_len)) IN
         IF IsSome(n) THEN generate_password(Max(Unwrap(n), 1), rnd.pick, rnd.rev)
         ELSE Unwrap(maybe_pw_or_len)

\* "add": the loop over --title and --note; anything else is skipped
RECURSIVE AddOptions(_, _, _)
AddOptions(rest, title, note) ==
    IF rest = <<>> THEN [title |-> title, note |-> note]
    ELSE IF Head(rest) = F_title THEN AddOptions(After(rest), NextArg(rest), note)
    ELSE IF Head(rest) = F_note THEN AddOptions(After(rest), title, NextArg(rest))
    ELSE AddOptions(Tail(rest), title, note)

\* tsupasswd add <url> <username> [password|length] [--title <title>] [--note <note>]
AddCmd(env, args, rnd) ==
    LET gate == ensure_authenticated(sessionFile, now) IN
    /\ argv' = Invocation(env, args)
    /\ UNCHANGED <<now, sessionFile>>
    /\ IF ~gate.ok THEN
           /\ out' = Out("add", 1, gate.err)
           /\ UNCHANGED <<passwords, passkeys, clock>>
       ELSE IF Len(args) < 2 THEN
           /\ out' = Out("add", 1, "Usage")
           /\ UNCHANGED <<passwords, passkeys, clock>>
       ELSE
           LET password == AddPassword(Field(args, 2), rnd)
               opts == AddOptions(SubSeq(args, 4, Len(args)), None, None)
               res == insert_password(passwords, env, args[1], args[2], password,
                                      opts.title, opts.note, rnd, clock)
           IN /\ passwords' = res.db
              /\ clock' = IF res.ok /\ res.inserted THEN clock + 1 ELSE clock
              /\ out' = IF res.ok THEN Out("add", 0, "") ELSE Out("add", 1, res.err)
              /\ UNCHANGED passkeys

\* tsupasswd get <url>
GetCmd(env, args) ==
    LET gate == ensure_authenticated(sessionFile, now) IN
    /\ argv' = Invocation(env, args)
    /\ UNCHANGED <<now, sessionFile, passwords, passkeys, clock>>
    /\ IF ~gate.ok THEN out' = Out("get", 1, gate.err)
       ELSE IF args = <<>> THEN out' = Out("get", 1, "Usage")
       ELSE LET entries == fetch_by_url(passwords, env, args[1]) IN
            out' = IF entries = <<>> THEN Out("get", 1, "NotFound")
                   ELSE OutRows("get", entries)

\* tsupasswd search <keyword>
SearchCmd(env, args) ==
    LET gate == ensure_authenticated(sessionFile, now) IN
    /\ argv' = Invocation(env, args)
    /\ UNCHANGED <<now, sessionFile, passwords, passkeys, clock>>
    /\ IF ~gate.ok THEN out' = Out("search", 1, gate.err)
       ELSE IF args = <<>> THEN out' = Out("search", 1, "Usage")
       ELSE LET entries == search_entries(passwords, env, args[1]) IN
            out' = IF entries = <<>> THEN Out("search", 1, "NotFound")
                   ELSE OutRows("search", entries)

\* "update": the loop over the flags
RECURSIVE UpdateOptions(_, _, _)
UpdateOptions(rest, o, rnd) ==
    IF rest = <<>> THEN o
    ELSE IF Head(rest) = F_url THEN UpdateOptions(After(rest), [o EXCEPT !.url = NextArg(rest)], rnd)
    ELSE IF Head(rest) = F_user THEN UpdateOptions(After(rest), [o EXCEPT !.username = NextArg(rest)], rnd)
    ELSE IF Head(rest) = F_password THEN UpdateOptions(After(rest), [o EXCEPT !.password = NextArg(rest)], rnd)
    ELSE IF Head(rest) = F_length THEN
        LET n == IF IsSome(NextArg(rest)) THEN ParseUsize(Unwrap(NextArg(rest))) ELSE None
        IN UpdateOptions(After(rest),
               IF IsSome(n)
               THEN [o EXCEPT !.password = Some(generate_password(Max(Unwrap(n), 1), rnd.pick, rnd.rev))]
               ELSE o, rnd)
    ELSE IF Head(rest) = F_title THEN UpdateOptions(After(rest), [o EXCEPT !.title = NextArg(rest)], rnd)
    ELSE IF Head(rest) = F_note THEN UpdateOptions(After(rest), [o EXCEPT !.note = NextArg(rest)], rnd)
    ELSE UpdateOptions(Tail(rest), o, rnd)

NoOptions == [url |-> None, username |-> None, password |-> None, title |-> None, note |-> None]

\* tsupasswd update <id> [--url U] [--user NAME] [--password PASS | --length N] [--title T] [--note N]
UpdateCmd(env, args, rnd) ==
    LET gate == ensure_authenticated(sessionFile, now) IN
    /\ argv' = Invocation(env, args)
    /\ UNCHANGED <<now, sessionFile, passkeys, clock>>
    /\ IF ~gate.ok THEN out' = Out("update", 1, gate.err) /\ UNCHANGED passwords
       ELSE IF args = <<>> THEN out' = Out("update", 1, "Usage") /\ UNCHANGED passwords
       ELSE
           LET o == UpdateOptions(Tail(args), NoOptions, rnd) IN
           IF o = NoOptions THEN out' = Out("update", 1, "NothingToUpdate") /\ UNCHANGED passwords
           ELSE LET res == update_entry(passwords, env, args[1], o.url, o.username,
                                        o.password, o.title, o.note, rnd)
                IN /\ passwords' = res.db
                   /\ out' = IF res.ok THEN Out("update", 0, "") ELSE Out("update", 1, res.err)

\* A delete that removes the id from both tables.
DeleteCmd_both(args) ==
    LET gate == ensure_authenticated(sessionFile, now) IN
    /\ argv' = Invocation(None, args)
    /\ UNCHANGED <<now, sessionFile, clock>>
    /\ IF ~gate.ok THEN out' = Out("delete", 1, gate.err) /\ UNCHANGED <<passwords, passkeys>>
       ELSE IF args = <<>> THEN out' = Out("delete", 1, "Usage") /\ UNCHANGED <<passwords, passkeys>>
       ELSE /\ passwords' = delete_entry(passwords, args[1])
            /\ passkeys' = {k \in passkeys : k.id # args[1]}
            /\ out' = Out("delete", 0, "")

\* tsupasswd delete <id>
DeleteCmd(args) ==
    LET gate == ensure_authenticated(sessionFile, now) IN
    /\ argv' = Invocation(None, args)
    /\ UNCHANGED <<now, sessionFile, passkeys, clock>>
    /\ IF ~gate.ok THEN out' = Out("delete", 1, gate.err) /\ UNCHANGED passwords
       ELSE IF args = <<>> THEN out' = Out("delete", 1, "Usage") /\ UNCHANGED passwords
       ELSE /\ passwords' = delete_entry(passwords, args[1])
            /\ out' = Out("delete", 0, "")

\* tsupasswd export <csv_path>: the records written are kept in out.rows
ExportCmd(env, args) ==
    LET gate == ensure_authenticated(sessionFile, now) IN
    /\ argv' = Invocation(env, args)
    /\ UNCHANGED <<now, sessionFile, passwords, passkeys, clock>>
    /\ IF ~gate.ok THEN out' = Out("export", 1, gate.err)
       ELSE IF args = <<>> THEN out' = Out("export", 1, "Usage")
       ELSE out' = OutRows("export", export_csv(passwords, env).records)

\* tsupasswd import <csv_path>: file is what the path holds
ImportCmd(env, args, file, rnds) ==
    LET gate == ensure_authenticated(sessionFile, now) IN
    /\ argv' = Invocation(env, args)
    /\ UNCHANGED <<now, sessionFile, passkeys>>
    /\ IF ~gate.ok THEN
           /\ out' = Out("import", 1, gate.err)
           /\ UNCHANGED <<passwords, clock>>
       ELSE IF args = <<>> THEN
           /\ out' = Out("import", 1, "Usage")
           /\ UNCHANGED <<passwords, clock>>
       ELSE LET res == import_csv(passwords, env, file.headers, file.records, rnds, clock)
            IN /\ passwords' = res.db
               /\ clock' = res.ts
               /\ out' = IF res.ok THEN Out("import", 0, "") ELSE Out("import", 1, res.err)

\* "passkey add": the loop over --sign-count, --title and --transports
RECURSIVE PasskeyOptions(_, _)
PasskeyOptions(rest, o) ==
    IF rest = <<>> THEN o
    ELSE IF Head(rest) = F_sign_count THEN
        LET n == IF IsSome(NextArg(rest)) THEN ParseI64(Unwrap(NextArg(rest))) ELSE None
        IN PasskeyOptions(After(rest), IF IsSome(n) THEN [o EXCEPT !.sign_count = Max(Unwrap(n), 0)] ELSE o)
    ELSE IF Head(rest) = F_title THEN PasskeyOptions(After(rest), [o EXCEPT !.title = NextArg(rest)])
    ELSE IF Head(rest) = F_transports THEN PasskeyOptions(After(rest), [o EXCEPT !.transports = NextArg(rest)])
    ELSE PasskeyOptions(Tail(rest), o)

\* tsupasswd passkey add <rp_id> <credential_id> <user_handle> <public_key> [--sign-count N] [--transports CSV] [--title T]
PasskeyAddCmd(args, uuid) ==
    LET gate == ensure_authenticated(sessionFile, now) IN
    /\ argv' = Invocation(None, args)
    /\ UNCHANGED <<now, sessionFile, passwords>>
    /\ IF ~gate.ok THEN
           /\ out' = Out("passkey add", 1, gate.err)
           /\ UNCHANGED <<passkeys, clock>>
       ELSE IF Len(args) < 4 THEN
           /\ out' = Out("passkey add", 1, "Usage")
           /\ UNCHANGED <<passkeys, clock>>
       ELSE LET o == PasskeyOptions(SubSeq(args, 5, Len(args)),
                                    [sign_count |-> 0, title |-> None, transports |-> None])
            IN /\ passkeys' = insert_passkey(passkeys, args[1], args[2], args[3], args[4],
                                             o.sign_count, o.title, o.transports, uuid, clock)
               /\ clock' = clock + 1
               /\ out' = Out("passkey add", 0, "")

\* tsupasswd passkey get <rp_id> <user_handle>
PasskeyGetCmd(args) ==
    LET gate == ensure_authenticated(sessionFile, now) IN
    /\ argv' = Invocation(None, args)
    /\ UNCHANGED <<now, sessionFile, passwords, passkeys, clock>>
    /\ IF ~gate.ok THEN out' = Out("passkey get", 1, gate.err)
       ELSE IF Len(args) < 2 THEN out' = Out("passkey get", 1, "Usage")
       ELSE LET list == get_passkeys_by_user(passkeys, args[1], args[2]) IN
            out' = IF list = <<>> THEN Out("passkey get", 1, "NotFound")
                   ELSE OutRows("passkey get", list)

\* tsupasswd passkey search <keyword>
PasskeySearchCmd(args) ==
    LET gate == ensure_authenticated(sessionFile, now) IN
    /\ argv' = Invocation(None, args)
    /\ UNCHANGED <<now, sessionFile, passwords, passkeys, clock>>
    /\ IF ~gate.ok THEN out' = Out("passkey search", 1, gate.err)
       ELSE IF args = <<>> THEN out' = Out("passkey search", 1, "Usage")
       ELSE LET list == search_passkeys(passkeys, args[1]) IN
            out' = IF list = <<>> THEN Out("passkey search", 1, "NotFound")
                   ELSE OutRows("passkey search", list)

\* tsupasswd passkey delete <id>
PasskeyDeleteCmd(args) ==
    LET gate == ensure_authenticated(sessionFile, now) IN
    /\ argv' = Invocation(None, args)
    /\ UNCHANGED <<now, sessionFile, passwords, clock>>
    /\ IF ~gate.ok THEN out' = Out("passkey delete", 1, gate.err) /\ UNCHANGED passkeys
       ELSE IF args = <<>> THEN out' = Out("passkey delete", 1, "Usage") /\ UNCHANGED passkeys
       ELSE LET res == delete_passkey(passkeys, args[1]) IN
            /\ passkeys' = res.db
            /\ out' = IF res.ok THEN Out("passkey delete", 0, "")
                      ELSE Out("passkey delete", 1, res.err)

\* tsupasswd passkey export <csv_path>
PasskeyExportCmd(args) ==
    LET gate == ensure_authenticated(sessionFile, now) IN
    /\ argv' = Invocation(None, args)
    /\ UNCHANGED <<now, sessionFile, passwords, passkeys, clock>>
    /\ IF ~gate.ok THEN out' = Out("passkey export", 1, gate.err)
       ELSE IF args = <<>> THEN out' = Out("passkey export", 1, "Usage")
       ELSE out' = OutRows("passkey export", export_passkeys_csv(passkeys).records)

\* tsupasswd passkey import <csv_path>
PasskeyImportCmd(args, file, uuids) ==
    LET gate == ensure_authenticated(sessionFile, now) IN
    /\ argv' = Invocation(None, args)
    /\ UNCHANGED <<now, sessionFile, passwords>>
    /\ IF ~gate.ok THEN
           /\ out' = Out("passkey import", 1, gate.err)
           /\ UNCHANGED <<passkeys, clock>>
       ELSE IF args = <<>> THEN
           /\ out' = Out("passkey import", 1, "Usage")
           /\ UNCHANGED <<passkeys, clock>>
       ELSE LET res == import_passkeys_csv(passkeys, file.headers, file.records, uuids, clock)
            IN /\ passkeys' = res.db
               /\ clock' = res.ts
               /\ out' = IF res.ok THEN Out("passkey import", 0, "")
                         ELSE Out("passkey import", 1, res.err)

NoOutput == Out("", 0, "")
NoInvocation == Invocation(None, <<>>)

\* d seconds pass with no invocation: nothing is reported.
Tick(d) ==
    /\ now' = now + d
    /\ argv' = NoInvocation
    /\ out' = NoOutput
    /\ UNCHANGED <<sessionFile, passwords, passkeys, clock>>

-----------------------------------------------------------------------------
(* The session commands, second by second *)

MaxTime == 62

Secret == <<"s">>
Wrong == <<"w">>

\* A --ttl argument and the number of minutes it asks for.
TtlCases ==
    {[text |-> <<"1">>, minutes |-> 1], [text |-> <<"2">>, minutes |-> 2],
     [text |-> <<"0">>, minutes |-> 0], [text |-> <<"-", "5">>, minutes |-> -5]}

SessionEnvs == {None, Some(Secret)}
SessionAuthArgs ==
    {<<Secret, F_ttl, c.text>> : c \in TtlCases}
    \cup {<<Wrong, F_ttl, <<"1">>>>, <<Secret>>, <<Secret, F_ttl>>,
          <<Secret, F_ttl, <<"x">>>>, <<>>}

\* The session file is absent, or was created and not written yet.
Init ==
    /\ now = 0
    /\ sessionFile \in {None, Some(<<>>)}
    /\ passwords = {}
    /\ passkeys = {}
    /\ clock = 0
    /\ argv = NoInvocation
    /\ out = NoOutput

NextSession ==
    \/ \E env \in SessionEnvs, args \in SessionAuthArgs : AuthCmd(env, args)
    \/ LogoutCmd
    \/ StatusCmd
    \/ DeleteCmd(<<FormatNat(1)>>)
    \/ now < MaxTime /\ Tick(1)

SpecSession == Init /\ [][NextSession]_vars

-----------------------------------------------------------------------------
(* The vault commands *)

MaxIds == 2
MaxClock == 2

\* Uuid::new_v4() draws one of these; no two rows of a table share a drawn id.
Uuids == {FormatNat(i) : i \in 1..MaxIds}
Nonces == {1}
Draws == {Draw(u, n, 1, FALSE) : u \in Uuids, n \in Nonces}
NonceDraws == {Draw(FormatNat(1), n, 1, FALSE) : n \in Nonces}
UniqueIds(db) == \A r, q \in db : r.id = q.id => r = q

UrlA == <<"a">>
UrlB == <<"b">>
Alice == <<"u">>
Bob == <<"v">>
Pw1 == <<"p">>
Pw2 == <<"q">>
T1 == <<"T">>
T2 == <<"U">>
N1 == <<"N">>

Envs == {Some(Secret)}
AuthArgs == {<<Secret, F_ttl, <<"1">>>>}

AddArgs ==
    {<<u>> \o c : u \in {UrlA, UrlB}, c \in {<<Alice, Pw1>>, <<Bob, Pw2>>}}
    \cup {<<UrlA, Bob, Pw2, F_title, T1>>, <<UrlA, Alice, Pw1, F_title, T2, F_note, N1>>}
    \cup {<<UrlA, Alice, <<"2">>>>, <<UrlA>>}

UpdateArgs ==
    {<<id>> \o o :
        id \in Uuids,
        o \in {<<F_url, UrlA>>, <<F_password, Pw1>>, <<F_length, <<"2">>>>, <<>>}}

IdArgs == {<<id>> : id \in Uuids}

PathF == <<"f">>
PathG == <<"g">>
ExportHeader == <<H_id, H_url, H_username, H_password, H_title, H_note, H_created_at>>

\* The files an import can be pointed at: an export's shape with two records;
\* a file whose second record is short.
FileAt(path) ==
    IF path = PathF THEN
        CsvFile(ExportHeader, <<<<<<"9">>, UrlA, Bob, Pw2, <<>>, <<>>, <<"0">>>>,
                                <<<<"8">>, UrlB, Alice, Pw1, <<>>, <<>>, <<"0">>>>>>)
    ELSE
        CsvFile(ExportHeader, <<<<<<"9">>, UrlA, Alice, Pw1, <<>>, <<>>, <<"0">>>>,
                                <<UrlB, Bob>>>>)

ImportArgs == {<<PathF>>, <<PathG>>}

\* One draw for each record, no uuid drawn twice.
DrawsFor(file) ==
    {rnds \in [1..Len(file.records) -> Draws] :
        \A i, j \in 1..Len(file.records) : i # j => rnds[i].uuid # rnds[j].uuid}

Next ==
    \/ \E env \in Envs, args \in AuthArgs : AuthCmd(env, args)
    \/ \E env \in Envs, args \in AddArgs, rnd \in Draws :
           AddCmd(env, args, rnd) /\ UniqueIds(passwords') /\ clock' <= MaxClock
    \/ \E env \in Envs, args \in UpdateArgs, rnd \in NonceDraws : UpdateCmd(env, args, rnd)
    \/ \E args \in IdArgs : DeleteCmd(args)
    \/ \E env \in Envs, args \in ImportArgs : \E rnds \in DrawsFor(FileAt(args[1])) :
           /\ ImportCmd(env, args, FileAt(args[1]), rnds)
           /\ UniqueIds(passwords') /\ clock' <= MaxClock

Spec == Init /\ [][Next]_vars

-----------------------------------------------------------------------------
(* Every gated command, minute by minute *)

Rp == <<"r">>
Cred == <<"c">>
Handle == <<"h">>
PubKey == <<"k">>

\* A passkey file in the shape export_passkeys_csv writes, with one record.
PasskeyFile ==
    CsvFile(<<H_id, H_rp_id, H_credential_id, H_user_handle, H_public_key, H_sign_count,
              H_title, H_transports, H_created_at>>,
            <<<<<<"9">>, Rp, Cred, Handle, PubKey, <<"7">>, <<>>, <<>>, <<"0">>>>>>)

NextGate ==
    \/ AuthCmd(Some(Secret), <<Secret, F_ttl, <<"1">>>>)
    \/ LogoutCmd
    \/ StatusCmd
    \/ now + SecondsPerMinute <= MaxTime /\ Tick(SecondsPerMinute)
    \/ \E rnd \in Draws :
           /\ AddCmd(Some(Secret), <<UrlA, Alice, Pw1>>, rnd)
           /\ UniqueIds(passwords') /\ clock' <= MaxClock
    \/ GetCmd(Some(Secret), <<UrlA>>)
    \/ SearchCmd(Some(Secret), <<UrlA>>)
    \/ \E args \in IdArgs, rnd \in NonceDraws : UpdateCmd(Some(Secret), args \o <<F_user, Bob>>, rnd)
    \/ \E args \in IdArgs : DeleteCmd(args)
    \/ ExportCmd(Some(Secret), <<PathF>>)
    \/ \E rnds \in DrawsFor(FileAt(PathG)) :
           /\ ImportCmd(Some(Secret), <<PathG>>, FileAt(PathG), rnds)
           /\ UniqueIds(passwords') /\ clock' <= MaxClock
    \/ \E uuid \in Uuids :
           /\ PasskeyAddCmd(<<Rp, Cred, Handle, PubKey>>, uuid)
           /\ UniqueIds(passkeys') /\ clock' <= MaxClock
    \/ PasskeyGetCmd(<<Rp, Handle>>)
    \/ PasskeySearchCmd(<<Rp>>)
    \/ \E args \in IdArgs : PasskeyDeleteCmd(args)
    \/ PasskeyExportCmd(<<PathF>>)
    \/ \E uuid \in Uuids :
           /\ PasskeyImportCmd(<<PathF>>, PasskeyFile, <<uuid>>)
           /\ UniqueIds(passkeys') /\ clock' <= MaxClock

SpecGate == Init /\ [][NextGate]_vars

\* The commands of NextGate, started on a session file that holds no i64:
\* nothing, blanks, a word, a bare sign, a number beyond the word's range.
InitCorrupt ==
    /\ now = 0
    /\ sessionFile \in {Some(<<>>), Some(<<" ", "\n">>), Some(<<"x">>), Some(<<"-">>),
                        Some(<<"1", "x">>), Some(FormatNat(MaxI64 + 1))}
    /\ passwords = {}
    /\ passkeys = {}
    /\ clock = 0
    /\ argv = NoInvocation
    /\ out = NoOutput

SpecCorrupt == InitCorrupt /\ [][NextGate]_vars

-----------------------------------------------------------------------------
(* The update command, field by field *)

\* The options an update is given: each field alone, two together, a length
\* that is no number, none.
UpdateFields ==
    {<<F_url, UrlB>>, <<F_user, Bob>>, <<F_password, Pw2>>, <<F_length, <<"2">>>>,
     <<F_title, T2>>, <<F_note, T2>>, <<F_url, UrlA, F_note, N1>>,
     <<F_length, <<"x">>>>, <<>>}

NextUpdate ==
    \/ AuthCmd(Some(Secret), <<Secret, F_ttl, <<"1">>>>)
    \/ \E args \in {<<UrlA, Alice, Pw1, F_title, T1, F_note, N1>>, <<UrlB, Bob, Pw2>>} :
       \E rnd \in Draws :
           AddCmd(Some(Secret), args, rnd) /\ UniqueIds(passwords') /\ clock' <= MaxClock
    \/ \E o \in UpdateFields, rnd \in NonceDraws :
           UpdateCmd(Some(Secret), <<FormatNat(1)>> \o o, rnd)
    \/ \E args \in IdArgs : DeleteCmd(args)

SpecUpdate == Init /\ [][NextUpdate]_vars

-----------------------------------------------------------------------------
(* The two tables: adds, reads and deletes of credentials and of passkeys *)

\* A passkey file whose record carries a negative sign_count.
PasskeyFileNegative ==
    CsvFile(<<H_id, H_rp_id, H_credential_id, H_user_handle, H_public_key, H_sign_count,
              H_title, H_transports, H_created_at>>,
            <<<<<<"9">>, Rp, Cred, Bob, PubKey, <<"-", "3">>, T1, <<>>, <<"0">>>>>>)

NextStore ==
    \/ AuthCmd(Some(Secret), <<Secret, F_ttl, <<"1">>>>)
    \/ \E args \in {<<UrlA, Alice, Pw1>>, <<UrlB, Bob, Pw2>>} : \E rnd \in Draws :
           AddCmd(Some(Secret), args, rnd) /\ UniqueIds(passwords') /\ clock' <= MaxClock
    \/ \E args \in {<<UrlA>>, <<UrlB>>} : GetCmd(Some(Secret), args)
    \/ \E args \in {<<UrlA>>, <<Alice>>, <<<<"A">>>>, <<<<"_">>>>, <<<<"%">>>>} :
           SearchCmd(Some(Secret), args)
    \/ \E args \in IdArgs : DeleteCmd(args)
    \/ \E o \in {<<>>, <<F_sign_count, <<"-", "5">>, F_title, T1>>,
                 <<F_sign_count, <<"3">>, F_transports, T2>>} :
       \E key \in {<<Rp, Handle>>, <<Rp \o Rp, Handle>>, <<Rp, Bob>>} : \E uuid \in Uuids :
           /\ PasskeyAddCmd(<<key[1], Cred, key[2], PubKey>> \o o, uuid)
           /\ UniqueIds(passkeys') /\ clock' <= MaxClock
    \/ \E args \in {<<Rp, Handle>>, <<Rp, Bob>>} : PasskeyGetCmd(args)
    \/ \E args \in {<<Rp>>, <<Rp \o Rp>>, <<<<"_">>>>} : PasskeySearchCmd(args)
    \/ \E args \in IdArgs : PasskeyDeleteCmd(args)
    \/ \E uuid \in Uuids :
           /\ PasskeyImportCmd(<<PathF>>, PasskeyFileNegative, <<uuid>>)
           /\ UniqueIds(passkeys') /\ clock' <= MaxClock

SpecStore == Init /\ [][NextStore]_vars

-----------------------------------------------------------------------------
(* encrypt_for_id and decrypt_for_id, call by call *)

MaxSeals == 2

\* A call of encrypt_for_id.  argv.args lists the calls made in a row under one
\* AUTH_SECRET, each as id, plaintext and the nonce OsRng gave it, and out.rows
\* the blobs they returned.
Seal(env, id, plaintext, nonce) ==
    LET res == encrypt_for_id(env, id, plaintext, nonce)
        more == /\ out.cmd = "seal" /\ out.exit = 0 /\ argv.env = env
                /\ Len(out.rows) < MaxSeals
    IN /\ argv' = Invocation(env, (IF more THEN argv.args ELSE <<>>)
                                      \o <<id, plaintext, FormatNat(nonce)>>)
       /\ out' = IF res.ok
                 THEN OutRows("seal", Append(IF more THEN out.rows ELSE <<>>, res.val))
                 ELSE Out("seal", 1, res.err)
       /\ UNCHANGED <<now, sessionFile, passwords, passkeys, clock>>

\* A call of decrypt_for_id on the blob the last seal returned.
Open(env, id) ==
    LET res == decrypt_for_id(env, id, out.rows[Len(out.rows)]) IN
    /\ out.cmd = "seal" /\ out.exit = 0
    /\ argv' = Invocation(env, <<id>>)
    /\ out' = IF res.ok THEN OutRows("open", <<res.val>>) ELSE Out("open", 1, res.err)
    /\ UNCHANGED <<now, sessionFile, passwords, passkeys, clock>>

NextCipher ==
    \/ \E env \in {None, Some(Secret), Some(Wrong)}, id \in Uuids :
       \E plaintext \in {<<>>, Pw1, Pw2}, nonce \in {1, 2} : Seal(env, id, plaintext, nonce)
    \/ \E env \in {None, Some(Secret), Some(Wrong)}, id \in Uuids : Open(env, id)

SpecCipher == Init /\ [][NextCipher]_vars

-----------------------------------------------------------------------------
(* Reads of passwords that do not open *)

\* The database file edited outside the program: the password column of a row
\* now holds a text that is no sealed blob (not base64, or shorter than a nonce).
EditPassword(id, text) ==
    /\ \E r \in passwords : r.id = id /\ r.password # PlainText(text)
    /\ passwords' = {IF r.id = id THEN [r EXCEPT !.password = PlainText(text)] ELSE r :
                        r \in passwords}
    /\ argv' = NoInvocation
    /\ out' = NoOutput
    /\ UNCHANGED <<now, sessionFile, passkeys, clock>>

NextRead ==
    \/ AuthCmd(Some(Secret), <<Secret, F_ttl, <<"1">>>>)
    \/ \E env \in {None, Some(Secret), Some(Wrong)} :
       \E args \in {<<UrlA, Alice, Pw1>>, <<UrlB, Alice, Pw2>>} : \E rnd \in Draws :
           AddCmd(env, args, rnd) /\ UniqueIds(passwords') /\ clock' <= MaxClock
    \/ \E env \in {None, Some(Secret)} : \E o \in {<<F_url, UrlA>>, <<F_password, Pw2>>} :
       \E rnd \in NonceDraws : UpdateCmd(env, <<FormatNat(1)>> \o o, rnd)
    \/ \E env \in {None, Some(Secret), Some(Wrong)} : GetCmd(env, <<UrlA>>)
    \/ \E env \in {None, Some(Secret), Some(Wrong)} : SearchCmd(env, <<Alice>>)
    \/ \E env \in {None, Some(Secret), Some(Wrong)} : ExportCmd(env, <<PathF>>)
    \/ \E env \in {None, Some(Secret)} : \E rnds \in DrawsFor(FileAt(PathG)) :
           /\ ImportCmd(env, <<PathG>>, FileAt(PathG), rnds)
           /\ UniqueIds(passwords') /\ clock' <= MaxClock
    \/ \E text \in {<<>>, <<"!">>} : EditPassword(FormatNat(2), text)

SpecRead == Init /\ [][NextRead]_vars

-----------------------------------------------------------------------------
(* The add command, argument by argument *)

NextAdd ==
    \/ AuthCmd(Some(Secret), <<Secret, F_ttl, <<"1">>>>)
    \/ \E args \in {<<UrlA, Alice, Pw1>>, <<UrlA, Alice, <<"0">>>>, <<UrlA, Alice, <<"2">>>>,
                    <<UrlB, Bob, <<"+", "3">>>>, <<UrlB, Bob, <<"-", "1">>>>, <<UrlA, Alice>>,
                    <<UrlB, Bob, F_title, T1>>, <<UrlA, Alice, F_note, N1, F_title, T1>>,
                    <<UrlA, Alice, Pw2, F_title, T2, F_note, N1>>} :
       \E uuid \in Uuids, g \in {<<1, FALSE>>, <<2, TRUE>>} :
           /\ AddCmd(Some(Secret), args, Draw(uuid, 1, g[1], g[2]))
           /\ UniqueIds(passwords') /\ clock' <= MaxClock
    \/ \E args \in {<<UrlA>>, <<UrlB>>} : GetCmd(Some(Secret), args)

SpecAdd == Init /\ [][NextAdd]_vars

-----------------------------------------------------------------------------
(* Imports of files with rows that cannot be used *)

\* What a path holds.  c: passwords, the second record short; d: passwords, no
\* password column; k: passkeys, the second record short; l: passkeys, no
\* public_key column.  r: passwords in the row shape of an export under a
\* header of other names; n: the same rows and no header line (the reader
\* has_headers(true) takes the first line for the header); e: an export of
\* one entry without title and note.
ImportFile(path) ==
    CASE path = <<"c">> ->
             CsvFile(ExportHeader, <<<<<<"9">>, UrlA, Alice, Pw1, T1, <<>>, <<"0">>>>,
                                     <<UrlB, Bob>>,
                                     <<<<"7">>, UrlB, Bob, Pw2, <<>>, <<>>, <<"0">>>>>>)
      [] path = <<"d">> ->
             CsvFile(<<H_url, H_username>>, <<<<UrlA, Alice>>, <<UrlB, Bob>>>>)
      [] path = <<"r">> ->
             CsvFile(<<<<"I">>, <<"L">>, <<"M">>, <<"W">>, <<"H">>, <<"O">>, <<"D">>>>,
                     <<<<<<"9">>, UrlA, Alice, Pw1, T1, N1, <<"0">>>>,
                       <<<<"8">>, UrlB, Bob, Pw2, <<>>, <<>>, <<"0">>>>>>)
      [] path = <<"n">> ->
             CsvFile(<<<<"9">>, UrlA, Alice, Pw1, T1, N1, <<"0">>>>,
                     <<<<<<"8">>, UrlB, Bob, Pw2, <<>>, <<>>, <<"0">>>>>>)
      [] path = <<"e">> ->
             CsvFile(ExportHeader, <<<<<<"9">>, UrlB, Bob, Pw2, <<>>, <<>>, <<"0">>>>>>)
      [] path = <<"k">> ->
             CsvFile(<<H_id, H_rp_id, H_credential_id, H_user_handle, H_public_key,
                       H_sign_count, H_title, H_transports, H_created_at>>,
                     <<<<<<"9">>, Rp, Cred, Handle, PubKey, <<"7">>, <<>>, <<>>, <<"0">>>>,
                       <<Rp, Cred, Bob>>,
                       <<<<"7">>, Rp, Cred, Bob, PubKey, <<"1">>, <<>>, <<>>, <<"0">>>>>>)
      [] OTHER ->
             CsvFile(<<H_rp_id, H_credential_id, H_user_handle>>, <<<<Rp, Cred, Handle>>>>)

NextImport ==
    \/ AuthCmd(Some(Secret), <<Secret, F_ttl, <<"1">>>>)
    \/ \E path \in {<<"c">>, <<"d">>, <<"r">>, <<"n">>, <<"e">>}, base \in 0..1 :
           /\ ImportCmd(Some(Secret), <<path>>, ImportFile(path),
                        [i \in 1..Len(ImportFile(path).records) |->
                            Draw(FormatNat(base + i), 1, 1, FALSE)])
           /\ UniqueIds(passwords') /\ clock' <= MaxClock
    \/ \E path \in {<<"k">>, <<"l">>}, base \in 0..1 :
           /\ PasskeyImportCmd(<<path>>, ImportFile(path),
                               [i \in 1..Len(ImportFile(path).records) |-> FormatNat(base + i)])
           /\ UniqueIds(passkeys') /\ clock' <= MaxClock
    \/ \E rnd \in Draws, args \in {<<UrlB, Alice, Pw1>>, <<UrlB, Alice, Pw1, F_title, T1, F_note, N1>>} :
           AddCmd(Some(Secret), args, rnd) /\ UniqueIds(passwords')
               /\ clock' <= MaxClock
    \/ \E o \in {<<F_user, Bob>>, <<F_title, <<>>>>, <<F_title>>, <<F_note, T2>>} :
           UpdateCmd(Some(Secret), <<FormatNat(1)>> \o o, Draw(<<>>, 1, 1, FALSE))
    \/ \E args \in IdArgs : DeleteCmd(args)
    \/ \E args \in IdArgs : PasskeyDeleteCmd(args)
    \/ SearchCmd(Some(Secret), <<<<>>>>)

SpecImport == Init /\ [][NextImport]_vars

-----------------------------------------------------------------------------
(* What the session file says *)

HasExpiry == IsSome(sessionFile) /\ IsSome(ParseI64(Unwrap(sessionFile)))
Expiry == Unwrap(ParseI64(Unwrap(sessionFile)))
NoSession == sessionFile = None
SessionActive == HasExpiry /\ now < Expiry
SessionExpired == HasExpiry /\ now >= Expiry

GateErrors == {"Unauthenticated", "SessionExpired", "StatusFailed"}

-----------------------------------------------------------------------------
(* C1: each of add, get, search, update, delete, export, import and the six *)
(* passkey sub-commands, run when the session file does not hold an expiry  *)
(* later than now (no file, an unreadable file, an expired one), exits      *)
(* non-zero with the gate's message, prints no row and leaves both tables   *)
(* as they were.                                                            *)
VaultCmds ==
    {"add", "get", "search", "update", "delete", "export", "import",
     "passkey add", "passkey get", "passkey search", "passkey delete",
     "passkey export", "passkey import"}

-----------------------------------------------------------------------------
(* C2: an auth whose secret differs from AUTH_SECRET, or that finds no      *)
(* AUTH_SECRET, exits non-zero and leaves the session file as it was.       *)
C2_FailedAuthKeepsSession ==
    [][out'.cmd = "auth" =>
          /\ (argv'.args # <<>> /\ argv'.env # Some(Head(argv'.args)))
                 => (out'.exit = 1 /\ sessionFile' = sessionFile)
          /\ out'.exit # 0 => sessionFile' = sessionFile]_vars

\* A wrong secret was refused while a session was active.
C2_Witness ==
    /\ out.cmd = "auth" /\ out.msg = "AuthenticationFailed"
    /\ SessionActive

-----------------------------------------------------------------------------
(* C3: an auth with the matching secret and --ttl N leaves a session file   *)
(* whose expiry is now + max(N, 1) * 60, whatever the file was before; for  *)
(* N = 0 and for a negative N that is now + 60.                             *)
C3_AuthStartsSession ==
    [][\A c \in TtlCases :
          (/\ out'.cmd = "auth"
           /\ argv'.env = Some(Secret)
           /\ argv'.args = <<Secret, F_ttl, c.text>>)
              => /\ out'.exit = 0
                 /\ HasExpiry'
                 /\ Expiry' = now + Max(c.minutes, 1) * 60
                 /\ c.minutes <= 0 => Expiry' = now + 60
                 /\ SessionActive']_vars

\* An auth succeeded after the first minute and left a 60-second session.
C3_Witness ==
    /\ out.cmd = "auth" /\ out.exit = 0
    /\ now > 60
    /\ HasExpiry /\ Expiry = now + 60

-----------------------------------------------------------------------------
(* C4: status reports no session when there is no file, an expired one      *)
(* whenever now >= expiry, and an authenticated one with remaining =        *)
(* expiry - now only when now < expiry; an authenticated report never       *)
(* carries a remaining time of zero or less.                                *)
C4_StatusReportsState ==
    out.cmd = "status" =>
        /\ NoSession => (out.exit = 1 /\ out.msg = "unauthenticated")
        /\ SessionExpired => (out.exit = 1 /\ out.msg # "authenticated")
        /\ SessionActive => (out.msg = "authenticated" /\ out.rem = Expiry - now)
        /\ out.msg = "authenticated" => out.rem > 0

-----------------------------------------------------------------------------
(* C5: while the file holds the expiry t0 + 60 that auth --ttl 1 wrote at   *)
(* t0, a status before t0 + 60 reports authenticated with remaining         *)
(* t0 + 60 - now, and a status or a gated command at or after t0 + 60 is    *)
(* refused.                                                                 *)
C5_SessionTtl ==
    \A t0 \in 0..now :
        (HasExpiry /\ Expiry = t0 + 60) =>
            /\ (out.cmd = "status" /\ now < t0 + 60)
                   => (out.msg = "authenticated" /\ out.rem = t0 + 60 - now)
            /\ (out.cmd = "status" /\ now >= t0 + 60)
                   => (out.exit = 1 /\ out.msg # "authenticated")
            /\ (out.cmd = "delete" /\ now >= t0 + 60)
                   => (out.exit = 1 /\ out.msg \in GateErrors)

-----------------------------------------------------------------------------
(* C6: logout succeeds from every session state and leaves no session file  *)
(* (so a second logout changes nothing more); with no session file a gated  *)
(* command is refused and the tables stay as they are, and only a           *)
(* successful auth brings a session file back.                              *)
C6_LogoutEndsSession ==
    [][/\ (out'.cmd = "logout" /\ LogoutCmd)
              => (NoSession' /\ out' = Out("logout", 0, ""))
       /\ (NoSession /\ out'.cmd = "delete")
              => (out'.exit = 1 /\ out'.msg = "Unauthenticated"
                  /\ UNCHANGED <<passwords, passkeys>>)
       /\ (NoSession /\ ~NoSession')
              => (out'.cmd = "auth" /\ out'.exit = 0)]_vars

\* A logout ran after the first second and no session file is left.
C6_Witness ==
    /\ out.cmd = "logout" /\ out.exit = 0
    /\ NoSession
    /\ now > 0

-----------------------------------------------------------------------------
(* What an invocation supplied, and what a stored password opens to *)

\* The value that follows flag among the options of an add or an update.
Given(args, first, flag) ==
    LET at == {i \in first..(Len(args) - 1) : args[i] = flag} IN
    IF at = {} THEN None
    ELSE Some(args[(CHOOSE i \in at : \A j \in at : j <= i) + 1])

\* The third argument of an add is a password, not a length.
GivesPassword(args) == Len(args) >= 3 /\ ~IsSome(ParseUsize(args[3]))

\* What the stored password of a row opens to under the key of the row's id.
Opens(r) == decrypt_for_id(Some(Secret), r.id, r.password)

Identity(db) == {<<r.id, r.created_at>> : r \in db}

\* The records of a file that an import reads before one of another length.
Ingested(file) ==
    {i \in 1..Len(file.records) :
        \A j \in 1..i : Len(file.records[j]) = Len(file.headers)}

-----------------------------------------------------------------------------
(* C7: an add for a url that has an entry adds no row: the entry keeps its  *)
(* id, url and created_at, takes the username given and a password that     *)
(* opens to the one given, and for title and for note takes the value given *)
(* or, when none is given, keeps the one it had.                            *)
C7_UpsertMerge ==
    [][(/\ out'.cmd = "add" /\ out'.exit = 0
        /\ \E e \in passwords : e.url = argv'.args[1])
          => LET a == argv'.args
                 title == Given(a, 4, F_title)
                 note == Given(a, 4, F_note)
             IN \E e \in passwords : \E m \in passwords' :
                    /\ e.url = a[1]
                    /\ passwords' = (passwords \ {e}) \cup {m}
                    /\ Cardinality(passwords') = Cardinality(passwords)
                    /\ m.id = e.id /\ m.url = e.url /\ m.created_at = e.created_at
                    /\ m.username = a[2]
                    /\ Opens(m).ok
                    /\ GivesPassword(a) => Opens(m).val = a[3]
                    /\ m.title = IF IsSome(title) THEN title ELSE e.title
                    /\ m.note = IF IsSome(note) THEN note ELSE e.note]_vars

\* An add without --title rewrote the username of an entry that has a title.
C7_Witness ==
    /\ out.cmd = "add" /\ out.exit = 0
    /\ argv.args = <<UrlA, Alice, Pw1>>
    /\ \E r \in passwords :
           /\ r.url = UrlA /\ r.username = Alice /\ r.title = Some(T1)
           /\ Opens(r) = Ok(Pw1)

-----------------------------------------------------------------------------
(* C8: when an add has succeeded, the table holds at most one row with the  *)
(* url it was given, whatever adds, updates, deletes and imports ran        *)
(* before.                                                                  *)
C8_OneEntryPerUrl ==
    (out.cmd = "add" /\ out.exit = 0)
        => Cardinality({r \in passwords : r.url = argv.args[1]}) <= 1

-----------------------------------------------------------------------------
(* C9: no command changes the id or the created_at of a row: every row is   *)
(* there afterwards with both as they were, unless a delete removed it, and *)
(* a row that was not there before was created by this command.             *)
C9_IdentityKept ==
    [][/\ out'.cmd # "delete" => Identity(passwords) \subseteq Identity(passwords')
       /\ out'.cmd = "delete" => Identity(passwords') \subseteq Identity(passwords)
       /\ Cardinality(Identity(passwords')) = Cardinality(passwords')
       /\ \A k \in Identity(passwords') \ Identity(passwords) :
              /\ k[2] >= clock
              /\ \A r \in passwords : r.id # k[1] /\ r.created_at < k[2]]_vars

\* An update gave the older of two entries another url.
C9_Witness ==
    /\ out.cmd = "update" /\ out.exit = 0
    /\ Given(argv.args, 2, F_url) = Some(UrlA)
    /\ Cardinality(passwords) = 2
    /\ \E r \in passwords :
           r.id = argv.args[1] /\ r.url = UrlA /\ r.created_at = 0

-----------------------------------------------------------------------------
(* C10: with AUTH_SECRET the same in every invocation, every stored         *)
(* password is a sealed blob that opens under the key of its own row's id;  *)
(* it opens to the password the last add, update or import gave for that    *)
(* row: a command that gives one leaves the row opening to it, and a row's  *)
(* password changes only by such a command.                                 *)
C10_SealedUnderOwnId ==
    [][LET a == argv'.args IN
       /\ \A m \in passwords' : m.password.sealed /\ Opens(m).ok
       /\ (out'.cmd = "add" /\ out'.exit = 0 /\ GivesPassword(a))
              => Opens(Unwrap(LatestByUrl(passwords', a[1]))).val = a[3]
       /\ (out'.cmd = "update" /\ out'.exit = 0 /\ IsSome(Given(a, 2, F_password)))
              => \A m \in passwords' :
                     m.id = a[1] => Opens(m).val = Unwrap(Given(a, 2, F_password))
       /\ (out'.cmd = "import" /\ out'.msg \notin GateErrors)
              => \A i \in Ingested(FileAt(a[1])) :
                     LET rec == FileAt(a[1]).records[i] IN
                     Opens(Unwrap(LatestByUrl(passwords', rec[2]))).val = rec[4]
       /\ \A m \in passwords' :
              \/ \E e \in passwords : e.id = m.id /\ Opens(e) = Opens(m)
              \/ /\ out'.cmd = "add"
                 /\ m = Unwrap(LatestByUrl(passwords', a[1]))
              \/ /\ out'.cmd = "update" /\ m.id = a[1]
                 /\ IsSome(Given(a, 2, F_password)) \/ IsSome(Given(a, 2, F_length))
              \/ /\ out'.cmd = "import"
                 /\ \E i \in Ingested(FileAt(a[1])) :
                        FileAt(a[1]).records[i][2] = m.url]_vars

\* An update gave a new password to an entry that an import had created.
C10_Witness ==
    /\ out.cmd = "update" /\ out.exit = 0
    /\ Given(argv.args, 2, F_password) = Some(Pw1)
    /\ \E r \in passwords :
           /\ r.id = argv.args[1] /\ r.username = Bob
           /\ Opens(r) = Ok(Pw1)

-----------------------------------------------------------------------------
(* C11: an update that succeeds finds the row of its id and changes in it   *)
(* only what the invocation supplied: url, username, title and note are the *)
(* value given or else the value before; with neither --password nor a      *)
(* numeric --length the stored blob is the same blob; id and created_at     *)
(* stay; every other row is as it was and no row is added or removed.       *)
C11_UpdateFrame ==
    [][(out'.cmd = "update" /\ out'.exit = 0) =>
       LET a == argv'.args
           len == Given(a, 2, F_length)
           newPassword == \/ IsSome(Given(a, 2, F_password))
                          \/ IsSome(len) /\ IsSome(ParseUsize(Unwrap(len)))
       IN /\ \E e \in passwords : e.id = a[1]
          /\ {r \in passwords' : r.id # a[1]} = {r \in passwords : r.id # a[1]}
          /\ Cardinality(passwords') = Cardinality(passwords)
          /\ \A e \in passwords : e.id = a[1] =>
                 \E m \in passwords' :
                     /\ m.id = e.id /\ m.created_at = e.created_at
                     /\ m.url = Unwrap(OrElse(Given(a, 2, F_url), Some(e.url)))
                     /\ m.username = Unwrap(OrElse(Given(a, 2, F_user), Some(e.username)))
                     /\ m.title = OrElse(Given(a, 2, F_title), e.title)
                     /\ m.note = OrElse(Given(a, 2, F_note), e.note)
                     /\ ~newPassword => m.password = e.password]_vars

\* An update gave one of two entries another url; its username, title and note
\* are still the ones it was added with.
C11_Witness ==
    /\ out.cmd = "update" /\ out.exit = 0
    /\ argv.args = <<FormatNat(1), F_url, UrlB>>
    /\ Cardinality(passwords) = 2
    /\ \E r \in passwords :
           /\ r.id = FormatNat(1) /\ r.url = UrlB /\ r.username = Alice
           /\ r.title = Some(T1) /\ r.note = Some(N1)
           /\ Opens(r) = Ok(Pw1)

-----------------------------------------------------------------------------
(* C12: an update whose id is not in the passwords table exits non-zero and *)
(* leaves the table as it was, so no entry appears; when the invocation     *)
(* supplied a field the error is NotFound (with none supplied the command   *)
(* stops earlier, at "nothing to update").                                  *)
C12_UpdateMissingId ==
    [][LET a == argv'.args IN
       (/\ out'.cmd = "update" /\ out'.msg \notin GateErrors
        /\ a # <<>> /\ \A e \in passwords : e.id # a[1])
       => /\ out'.exit # 0
          /\ passwords' = passwords
          /\ UpdateOptions(Tail(a), NoOptions, Draw(<<>>, 1, 1, FALSE)) # NoOptions
                 => out'.msg = "NotFound"]_vars

\* An update named an id that only a deleted entry had had, next to an entry
\* that is still there.
C12_Witness ==
    /\ out.cmd = "update" /\ out.exit = 1 /\ out.msg = "NotFound"
    /\ IsSome(Given(argv.args, 2, F_url))
    /\ Cardinality(passwords) = 1
    /\ \A r \in passwords : r.id # argv.args[1]

-----------------------------------------------------------------------------
(* C13: with the session gate passed, a passkey delete of an id that no     *)
(* passkey has exits 1 with NotFound, and a credential delete of an id that *)
(* no entry has exits 0 with no error; either way both tables are as they   *)
(* were.                                                                    *)
C13_DeleteAsymmetry ==
    [][LET a == argv'.args IN
       /\ (/\ out'.cmd = "passkey delete" /\ out'.msg \notin GateErrors
           /\ a # <<>> /\ \A r \in passkeys : r.id # a[1])
          => /\ out'.exit = 1 /\ out'.msg = "NotFound"
             /\ passkeys' = passkeys /\ passwords' = passwords
       /\ (/\ out'.cmd = "delete" /\ out'.msg \notin GateErrors
           /\ a # <<>> /\ \A r \in passwords : r.id # a[1])
          => /\ out'.exit = 0 /\ out'.msg = ""
             /\ passkeys' = passkeys /\ passwords' = passwords]_vars

\* A passkey delete failed for an id that a credential has and no passkey has,
\* while another passkey is stored.
C13_Witness ==
    /\ out.cmd = "passkey delete" /\ out.exit = 1 /\ out.msg = "NotFound"
    /\ passkeys # {} /\ \A r \in passkeys : r.id # argv.args[1]
    /\ \E r \in passwords : r.id = argv.args[1]

-----------------------------------------------------------------------------
(* C14: a delete of an id that is there removes the one row with that id    *)
(* from its table and nothing else from either table; a get or a search     *)
(* reports only rows that are in the table at that moment, so never a       *)
(* deleted one; and a passkey get for a pair that no stored passkey has     *)
(* exits non-zero.                                                          *)
C14_DeleteRemovesOne ==
    [][LET a == argv'.args IN
       /\ (/\ out'.cmd = "delete" /\ out'.exit = 0 /\ \E r \in passwords : r.id = a[1])
          => /\ passwords' = {r \in passwords : r.id # a[1]}
             /\ Cardinality(passwords') = Cardinality(passwords) - 1
             /\ passkeys' = passkeys
       /\ (out'.cmd = "passkey delete" /\ out'.exit = 0)
          => /\ \E r \in passkeys : r.id = a[1]
             /\ passkeys' = {r \in passkeys : r.id # a[1]}
             /\ Cardinality(passkeys') = Cardinality(passkeys) - 1
             /\ passwords' = passwords
       /\ out'.cmd \in {"passkey get", "passkey search"}
          => \A i \in 1..Len(out'.rows) : out'.rows[i] \in passkeys'
       /\ out'.cmd = "search"
          => \A i \in 1..Len(out'.rows) : \E r \in passwords' : r.id = out'.rows[i].id
       /\ out'.cmd = "get"
          => \A i \in 1..Len(out'.rows) :
                 \E r \in passwords' : r.url = a[1] /\ r.username = out'.rows[i].username
       /\ (/\ out'.cmd = "passkey get" /\ out'.msg \notin GateErrors /\ Len(a) >= 2
           /\ \A r \in passkeys' : r.rp_id # a[1] \/ r.user_handle # a[2])
          => out'.exit # 0 /\ out'.rows = <<>>]_vars

\* A passkey delete removed one of two passkeys; the other is still stored.
C14_Witness ==
    /\ out.cmd = "passkey delete" /\ out.exit = 0
    /\ Cardinality(passkeys) = 1
    /\ \A r \in passkeys : r.id # argv.args[1] /\ r.rp_id = Rp /\ r.user_handle = Handle

-----------------------------------------------------------------------------
(* C15: a passkey add that succeeds leaves every stored passkey as it was   *)
(* and adds exactly one row, whose id no stored passkey had and whose rp_id *)
(* and user_handle are the arguments, so the pair has one entry more than   *)
(* before; a passkey import adds one such row for each record it read.      *)
C15_PasskeyAddNeverMerges ==
    [][LET a == argv'.args
           added == passkeys' \ passkeys
       IN
       /\ (out'.cmd = "passkey add" /\ out'.exit = 0)
          => /\ passkeys \subseteq passkeys'
             /\ Cardinality(passkeys') = Cardinality(passkeys) + 1
             /\ \A n \in added :
                    /\ \A r \in passkeys : r.id # n.id
                    /\ n.rp_id = a[1] /\ n.credential_id = a[2] /\ n.user_handle = a[3]
             /\ Cardinality({r \in passkeys' : r.rp_id = a[1] /\ r.user_handle = a[3]})
                    = Cardinality({r \in passkeys : r.rp_id = a[1] /\ r.user_handle = a[3]}) + 1
       /\ (out'.cmd = "passkey import" /\ out'.exit = 0)
          => /\ passkeys \subseteq passkeys'
             /\ Cardinality(passkeys') = Cardinality(passkeys) + Len(PasskeyFile.records)
             /\ \A n \in added : \A r \in passkeys : r.id # n.id]_vars

\* The second passkey add for one pair, with the same credential: two entries.
C15_Witness ==
    /\ out.cmd = "passkey add" /\ out.exit = 0
    /\ Cardinality(passkeys) = 2
    /\ \A r \in passkeys :
           r.rp_id = Rp /\ r.user_handle = Handle /\ r.credential_id = Cred /\ r.sign_count = 0

-----------------------------------------------------------------------------
(* C16: with the session gate passed, a passkey add stores one row holding  *)
(* the credential_id, public_key, title and transports of the invocation    *)
(* and its sign-count (zero for none or a negative one); no later command   *)
(* alters a stored passkey; a passkey get for a pair that some stored       *)
(* passkey has succeeds and returns exactly the stored rows of that pair,   *)
(* as they are stored; a passkey search returns, with its id, every stored  *)
(* row whose rp_id contains the keyword.                                    *)
C16_PasskeyGetAndSearch ==
    [][LET a == argv'.args
           passed == out'.msg \notin GateErrors
           count == Given(a, 5, F_sign_count)
           matching == {r \in passkeys' : r.rp_id = a[1] /\ r.user_handle = a[2]}
           within(k, t) == \E i \in 1..(Len(t) - Len(k) + 1) : SubSeq(t, i, i + Len(k) - 1) = k
       IN
       /\ (out'.cmd = "passkey add" /\ passed /\ Len(a) >= 4)
          => /\ out'.exit = 0
             /\ \E n \in passkeys' \ passkeys :
                    /\ passkeys' = passkeys \cup {n}
                    /\ n.rp_id = a[1] /\ n.credential_id = a[2]
                    /\ n.user_handle = a[3] /\ n.public_key = a[4]
                    /\ n.sign_count = IF IsSome(count) /\ IsSome(ParseI64(Unwrap(count)))
                                      THEN Max(Unwrap(ParseI64(Unwrap(count))), 0) ELSE 0
                    /\ n.title = Given(a, 5, F_title)
                    /\ n.transports = Given(a, 5, F_transports)
       /\ out'.cmd \notin {"passkey add", "passkey import"} => passkeys' \subseteq passkeys
       /\ (out'.cmd = "passkey get" /\ passed /\ Len(a) >= 2 /\ matching # {})
          => /\ out'.exit = 0
             /\ {out'.rows[i] : i \in 1..Len(out'.rows)} = matching
             /\ Len(out'.rows) = Cardinality(matching)
       /\ (out'.cmd = "passkey search" /\ passed /\ a # <<>>)
          => \A r \in passkeys' :
                 within(a[1], r.rp_id) => \E i \in 1..Len(out'.rows) : out'.rows[i] = r]_vars

\* A passkey get returned the one passkey of its pair, added with a sign-count
\* and transports, while a passkey of the same rp_id and another user is stored.
C16_Witness ==
    /\ out.cmd = "passkey get" /\ out.exit = 0 /\ argv.args = <<Rp, Handle>>
    /\ Len(out.rows) = 1
    /\ out.rows[1].credential_id = Cred /\ out.rows[1].public_key = PubKey
    /\ out.rows[1].sign_count = 3 /\ out.rows[1].transports = Some(T2)
    /\ \E r \in passkeys : r.rp_id = Rp /\ r.user_handle = Bob

-----------------------------------------------------------------------------
(* C17: no stored passkey has a negative sign_count.                        *)
C17_SignCountNonNegative == \A r \in passkeys : r.sign_count >= 0

-----------------------------------------------------------------------------
(* C18: decrypt_for_id, called with the id and under the AUTH_SECRET of the *)
(* encrypt_for_id call that returned the blob, returns the plaintext of     *)
(* that call, whatever the plaintext, the id and the nonce drawn.           *)
C18_RoundTrip ==
    [][(out.cmd = "seal" /\ out.exit = 0 /\ out'.cmd = "open") =>
       LET n == Len(argv.args) IN
       (argv'.env = argv.env /\ argv'.args[1] = argv.args[n - 2])
           => out'.exit = 0 /\ out'.rows = <<argv.args[n - 1]>>]_vars

\* A blob sealed under the key of id 2 was opened, under that key, to the
\* password it sealed.
C18_Witness ==
    /\ out.cmd = "open" /\ out.exit = 0 /\ out.rows = <<Pw2>>
    /\ argv = Invocation(Some(Secret), <<FormatNat(2)>>)

-----------------------------------------------------------------------------
(* C19: decrypt_for_id, called under the same AUTH_SECRET with another id   *)
(* than the encrypt_for_id call that returned the blob, fails with a        *)
(* decrypt failure and returns no plaintext, whatever the plaintext.        *)
C19_KeyIsolation ==
    [][(out.cmd = "seal" /\ out.exit = 0 /\ out'.cmd = "open") =>
       LET n == Len(argv.args) IN
       (argv'.env = argv.env /\ argv'.args[1] # argv.args[n - 2])
           => out'.exit = 1 /\ out'.msg = "DecryptFailure" /\ out'.rows = <<>>]_vars

\* A blob was refused under the key of the other id, with the secret set.
C19_Witness ==
    /\ out.cmd = "open" /\ out.exit = 1 /\ out.msg = "DecryptFailure"
    /\ argv = Invocation(Some(Secret), <<FormatNat(1)>>)

-----------------------------------------------------------------------------
(* C20, as claimed: the blobs of any two seal calls differ, and no two      *)
(* calls under one key use the same nonce.                                  *)
C20_NonceUniqueness ==
    (out.cmd = "seal" /\ out.exit = 0) =>
        \A i, j \in 1..Len(out.rows) :
            i < j => /\ out.rows[i] # out.rows[j]
                     /\ out.rows[i].key = out.rows[j].key
                            => out.rows[i].nonce # out.rows[j].nonce

(* C20: each seal call puts in its blob the nonce that the random generator *)
(* gave that call, whatever the key and the plaintext; two calls return the *)
(* same blob only when id, plaintext and the nonce drawn are all the same,  *)
(* so two seals of one plaintext under one key differ whenever their draws  *)
(* differ.                                                                  *)
C20_NonceDrawnPerCall ==
    (out.cmd = "seal" /\ out.exit = 0) =>
        /\ Len(argv.args) = 3 * Len(out.rows)
        /\ \A i \in 1..Len(out.rows) : FormatNat(out.rows[i].nonce) = argv.args[3 * i]
        /\ \A i, j \in 1..Len(out.rows) :
               out.rows[i] = out.rows[j]
                   <=> SubSeq(argv.args, 3 * i - 2, 3 * i) = SubSeq(argv.args, 3 * j - 2, 3 * j)

\* Two seals of one password under one key drew different nonces: two blobs.
C20_Witness ==
    /\ out.cmd = "seal" /\ out.exit = 0
    /\ argv = Invocation(Some(Secret), <<FormatNat(1), Pw1, FormatNat(1), FormatNat(1), Pw1, FormatNat(2)>>)
    /\ out.rows[1] # out.rows[2]

-----------------------------------------------------------------------------
(* C21: with AUTH_SECRET set and the session gate passed, get, search and   *)
(* export succeed whatever the stored passwords are: an entry whose stored  *)
(* password is a blob sealed under the key of its id and this secret is     *)
(* shown with the plaintext, and an entry whose stored password is anything *)
(* else (a text that is no blob, a blob sealed under another key) is shown  *)
(* with the stored text itself, next to the other entries.                  *)
C21_DecryptFallback ==
    [][LET a == argv'.args
           shown(r) == IF /\ r.password.sealed
                          /\ r.password.key = <<r.id, Unwrap(argv'.env), "password-at-rest">>
                       THEN PlainText(r.password.pt) ELSE r.password
           byUrl == {r \in passwords : r.url = a[1]}
           byUser == {r \in passwords : r.username = a[1]}
       IN
       (IsSome(argv'.env) /\ out'.msg \notin GateErrors /\ a # <<>>) =>
           /\ (out'.cmd = "get" /\ byUrl # {})
              => /\ out'.exit = 0 /\ Len(out'.rows) = Cardinality(byUrl)
                 /\ \A r \in byUrl : \E i \in 1..Len(out'.rows) :
                        out'.rows[i] = [username |-> r.username, password |-> shown(r),
                                        title |-> r.title, note |-> r.note]
           /\ (out'.cmd = "search" /\ byUser # {})
              => /\ out'.exit = 0
                 /\ \A r \in byUser : \E i \in 1..Len(out'.rows) :
                        out'.rows[i].id = r.id /\ out'.rows[i].password = shown(r)
           /\ out'.cmd = "export"
              => /\ out'.exit = 0 /\ Len(out'.rows) = Cardinality(passwords)
                 /\ \A r \in passwords : \E i \in 1..Len(out'.rows) :
                        out'.rows[i][1] = r.id /\ out'.rows[i][4] = shown(r)]_vars

\* A search under one secret returned two entries: one with its password opened,
\* one, sealed under another secret, with the stored blob.
C21_Witness ==
    /\ out.cmd = "search" /\ out.exit = 0 /\ argv.env = Some(Secret)
    /\ Len(out.rows) = 2
    /\ \E i, j \in 1..2 :
           /\ out.rows[i].password = PlainText(Pw1)
           /\ out.rows[j].password.sealed
           /\ \E r \in passwords : r.id = out.rows[j].id /\ r.password = out.rows[j].password

-----------------------------------------------------------------------------
(* C22: with AUTH_SECRET unset and the session gate passed, every command   *)
(* that needs a key (an add, an update of a stored entry with a new         *)
(* password, a get or a search that matches an entry, an export of a        *)
(* non-empty table, an import) exits non-zero with MissingSecret and leaves *)
(* the passwords table as it was.                                           *)
C22_MissingSecretFatal ==
    [][LET a == argv'.args
           needsKey ==
               \/ out'.cmd = "add" /\ Len(a) >= 2
               \/ /\ out'.cmd = "update" /\ a # <<>> /\ IsSome(Given(a, 2, F_password))
                  /\ \E r \in passwords : r.id = a[1]
               \/ out'.cmd = "get" /\ a # <<>> /\ \E r \in passwords : r.url = a[1]
               \/ out'.cmd = "search" /\ a # <<>> /\ \E r \in passwords : r.username = a[1]
               \/ out'.cmd = "export" /\ a # <<>> /\ passwords # {}
               \/ out'.cmd = "import" /\ a # <<>>
       IN (argv'.env = None /\ out'.msg \notin GateErrors /\ needsKey)
              => /\ out'.exit # 0 /\ out'.msg = "MissingSecret"
                 /\ passwords' = passwords]_vars

-----------------------------------------------------------------------------
(* C23, as claimed: after an add with a third argument, the stored password *)
(* opens to a generated text of N characters when the argument parses as a  *)
(* positive integer N, and to the argument itself in every other case, "0"  *)
(* included.                                                                *)
C23_PositiveLengthElseVerbatim ==
    [][LET a == argv'.args IN
       (out'.cmd = "add" /\ out'.exit = 0 /\ Len(a) >= 3) =>
           LET n == ParseUsize(a[3])
               pw == Opens(Unwrap(LatestByUrl(passwords', a[1]))).val
           IN IF IsSome(n) /\ Unwrap(n) > 0
              THEN /\ Len(pw) = Unwrap(n)
                   /\ \A i \in 1..Len(pw) :
                          \E k \in 1..Len(UPPER \o LOWER \o DIGIT) : (UPPER \o LOWER \o DIGIT)[k] = pw[i]
              ELSE pw = a[3]]_vars

(* C23: after an add with a third argument, the stored password opens to a  *)
(* generated text of max(N, 1) characters when the argument parses as an    *)
(* unsigned integer N (digits, with or without a leading +), so "0" gives   *)
(* one generated character, and to the argument itself when it does not     *)
(* parse.                                                                   *)
C23_LengthElseVerbatim ==
    [][LET a == argv'.args IN
       (out'.cmd = "add" /\ out'.exit = 0 /\ Len(a) >= 3) =>
           LET n == ParseUsize(a[3])
               pw == Opens(Unwrap(LatestByUrl(passwords', a[1]))).val
           IN IF IsSome(n)
              THEN /\ Len(pw) = Max(Unwrap(n), 1)
                   /\ \A i \in 1..Len(pw) :
                          \E k \in 1..Len(UPPER \o LOWER \o DIGIT) : (UPPER \o LOWER \o DIGIT)[k] = pw[i]
              ELSE pw = a[3]]_vars

\* An add whose third argument was "0" stored one generated character.
C23_Witness ==
    /\ out.cmd = "add" /\ out.exit = 0 /\ argv.args = <<UrlA, Alice, <<"0">>>>
    /\ \E r \in passwords : r.url = UrlA /\ Len(Opens(r).val) = 1 /\ Opens(r).val # <<"0">>

-----------------------------------------------------------------------------
(* C27: an add whose third argument is --title or --note stores a generated *)
(* password of 16 characters, never the flag, and the title and note that   *)
(* follow the flags.                                                        *)
C27_PasswordOptional ==
    [][LET a == argv'.args IN
       (out'.cmd = "add" /\ out'.exit = 0 /\ Len(a) >= 3 /\ a[3] \in {F_title, F_note}) =>
           LET row == Unwrap(LatestByUrl(passwords', a[1]))
               pw == Opens(row).val
           IN /\ pw \notin {F_title, F_note}
              /\ Len(pw) = DefaultLength
              /\ IsSome(Given(a, 3, F_title)) => row.title = Given(a, 3, F_title)
              /\ IsSome(Given(a, 3, F_note)) => row.note = Given(a, 3, F_note)]_vars

-----------------------------------------------------------------------------
(* C24: a search that passes the gate returns exactly the entries in which  *)
(* the keyword occurs, letter case aside, as a literal substring of id,     *)
(* url, username, title or note, each once, by id descending; a passkey     *)
(* search does so over id, rp_id, credential_id, user_handle, title and     *)
(* transports.                                                              *)
C24_LiteralSubstringSearch ==
    [][LET a == argv'.args
           fold(t) == [i \in 1..Len(t) |-> Fold(t[i])]
           within(k, t) == \E i \in 1..(Len(t) - Len(k) + 1) :
                               SubSeq(fold(t), i, i + Len(k) - 1) = fold(k)
           hits == {r \in passwords :
                       \/ within(a[1], r.id) \/ within(a[1], r.url) \/ within(a[1], r.username)
                       \/ within(a[1], IfNull(r.title)) \/ within(a[1], IfNull(r.note))}
           keyHits == {r \in passkeys :
                          \/ within(a[1], r.id) \/ within(a[1], r.rp_id)
                          \/ within(a[1], r.credential_id) \/ within(a[1], r.user_handle)
                          \/ within(a[1], IfNull(r.title)) \/ within(a[1], IfNull(r.transports))}
           rows == out'.rows
       IN (out'.cmd \in {"search", "passkey search"} /\ out'.msg \notin GateErrors /\ a # <<>>) =>
              /\ {rows[i].id : i \in 1..Len(rows)}
                     = {r.id : r \in IF out'.cmd = "search" THEN hits ELSE keyHits}
              /\ \A i, j \in 1..Len(rows) : i < j => StrLess(rows[j].id, rows[i].id)]_vars

-----------------------------------------------------------------------------
(* C25: whatever the passwords table holds, the file an export writes,      *)
(* imported into an empty table under the same secret, gives a table with   *)
(* the same (url, username, opened password, title, note), each as many     *)
(* times as before; an absent title or note is counted as an empty one, as  *)
(* the file writes it.                                                      *)
C25_ExportImportRoundTrip ==
    LET file == export_csv(passwords, Some(Secret))
        \* the password field of a record is the text that was shown
        records == [i \in 1..Len(file.records) |->
                       [file.records[i] EXCEPT ![4] = IF @.sealed THEN <<"?">> ELSE @.pt]]
        rnds == [i \in 1..Len(records) |-> Draw(FormatNat(i), 1, 1, FALSE)]
        back == import_csv({}, Some(Secret), file.headers, records, rnds, 0)
        tuple(r) == <<r.url, r.username, Opens(r).val, IfNull(r.title), IfNull(r.note)>>
        count(db, t) == Cardinality({r \in db : tuple(r) = t})
    IN /\ back.ok
       /\ \A r \in passwords \cup back.db : count(back.db, tuple(r)) = count(passwords, tuple(r))

-----------------------------------------------------------------------------
(* C26: an import of a file in which some record lacks a required field     *)
(* (the record is shorter than the header, or neither a column of that name *)
(* nor the fallback position holds a value) exits non-zero, and the table   *)
(* changes only by the records before the first such record: no entry comes *)
(* from that record or from a later one.                                    *)
C26_ImportStopsAtInvalidRow ==
    [][LET a == argv'.args
           file == ImportFile(a[1])
           names == IF out'.cmd = "import" THEN <<H_url, H_username, H_password>>
                    ELSE <<H_rp_id, H_credential_id, H_user_handle, H_public_key>>
           lacks(rec) == \/ Len(rec) < Len(file.headers)
                         \/ \E n \in 1..Len(names) :
                                /\ ByName(file.headers, rec, names[n]) = None
                                /\ Field(rec, n - 1) = None
           invalid == {i \in 1..Len(file.records) : lacks(file.records[i])}
           k == CHOOSE i \in invalid : \A j \in invalid : i <= j
           column(i, name, pos) ==
               Unwrap(OrElse(ByName(file.headers, file.records[i], name),
                             Field(file.records[i], pos)))
       IN (/\ out'.cmd \in {"import", "passkey import"} /\ out'.msg \notin GateErrors
           /\ a # <<>> /\ invalid # {})
          => /\ out'.exit # 0
             /\ out'.cmd = "import" =>
                    /\ passkeys' = passkeys
                    /\ \A m \in passwords' :
                           \/ m \in passwords
                           \/ \E i \in 1..(k - 1) :
                                  /\ m.url = column(i, H_url, 0)
                                  /\ m.username = column(i, H_username, 1)
                                  /\ Opens(m).val = column(i, H_password, 2)
                    /\ Cardinality(passwords') <= Cardinality(passwords) + k - 1
             /\ out'.cmd = "passkey import" =>
                    /\ passwords' = passwords
                    /\ passkeys \subseteq passkeys'
                    /\ Cardinality(passkeys') = Cardinality(passkeys) + k - 1
                    /\ \A m \in passkeys' \ passkeys :
                           \E i \in 1..(k - 1) : m.user_handle = column(i, H_user_handle, 2)]_vars

\* An import failed at its second record: the entry of the first record is
\* stored, and none of the third.
C26_Witness ==
    /\ out.cmd = "import" /\ out.exit = 1 /\ argv.args = <<<<"c">>>>
    /\ Cardinality(passwords) = 1
    /\ \A r \in passwords : r.url = UrlA /\ r.username = Alice /\ r.title = Some(T1)

-----------------------------------------------------------------------------
(* Sessions of any length *)

\* auth with every kind of --ttl: short, the longest whose expiry fits an i64
\* at time 0, the first whose product does not, i64::MAX, and one past it
\* (no i64: the default of 30 minutes stays).
NextTtl ==
    \/ \E m \in {1, 2, MaxI64 \div SecondsPerMinute, (MaxI64 \div SecondsPerMinute) + 1,
                  MaxI64, MaxI64 + 1} :
           AuthCmd(Some(Secret), <<Secret, F_ttl, FormatI64(m)>>)
    \/ AuthCmd(Some(Secret), <<Wrong>>)
    \/ StatusCmd
    \/ GetCmd(Some(Secret), <<UrlA>>)
    \/ LogoutCmd
    \/ now + (MaxTime \div 2) <= MaxTime /\ Tick(MaxTime \div 2)

SpecTtl == Init /\ [][NextTtl]_vars

-----------------------------------------------------------------------------
(* C28: for every --ttl that auth accepts (any i64, raised to 1 at least),  *)
(* auth with the right secret succeeds and the expiry it writes is the      *)
(* number now + ttl * 60 itself: nothing wraps, nothing aborts, and so no   *)
(* ttl gives an expiry earlier than the one-minute session's, let alone one *)
(* that has passed already.                                                 *)
C28_ExpiryNeverWraps ==
    [][(/\ out'.cmd = "auth"
        /\ argv'.env = Some(Secret)
        /\ Len(argv'.args) = 3
        /\ argv'.args[1] = Secret /\ argv'.args[2] = F_ttl
        /\ IsSome(ParseI64(argv'.args[3])))
           => LET ttl == Max(Unwrap(ParseI64(argv'.args[3])), 1) IN
              /\ out'.exit = 0
              /\ sessionFile' = Some(FormatNat(now + ttl * SecondsPerMinute))
              /\ HasExpiry' /\ Expiry' >= now + SecondsPerMinute
              /\ SessionActive']_vars

-----------------------------------------------------------------------------
(* Two invocations at once *)

\* Each invocation is a process of its own on the one database file; a
\* statement is atomic, and update_entry and insert_password run two of them
\* (a SELECT, then an UPDATE or INSERT) with no transaction around them.
\* While two invocations run, argv.args holds the two command lines and
\* out.rows the table they started from and, for each, the statement it runs
\* next (pc), the row its SELECT found and what it draws.
Proc(pc, found, rnd) == [pc |-> pc, found |-> found, rnd |-> rnd]
InFlight(cmd, before, procs) ==
    [Out(cmd, 0, "InFlight") EXCEPT !.rows = [before |-> before, procs |-> procs]]
Running(cmd) == out.cmd = cmd /\ out.msg = "InFlight"
AllDone == \A p \in 1..2 : out.rows.procs[p].pc = "done"

\* Two updates pass the gate and start.
UpdateStart(env, argsA, argsB) ==
    /\ ensure_authenticated(sessionFile, now).ok
    /\ argv' = Invocation(env, <<argsA, argsB>>)
    /\ out' = InFlight("update", passwords,
                       <<Proc("select", None, Draw(<<>>, 1, 1, FALSE)),
                         Proc("select", None, Draw(<<>>, 1, 1, FALSE))>>)
    /\ UNCHANGED <<now, sessionFile, passwords, passkeys, clock>>

\* update_entry, first statement: SELECT ... WHERE id = ?1; no row is an error
UpdateSelect(p) ==
    /\ Running("update")
    /\ out.rows.procs[p].pc = "select"
    /\ LET rows == {r \in passwords : r.id = argv.args[p][1]} IN
       out' = [out EXCEPT !.rows.procs[p] =
                  IF rows = {} THEN Proc("done", None, @.rnd)
                  ELSE Proc("execute", Some(CHOOSE r \in rows : TRUE), @.rnd)]
    /\ UNCHANGED <<now, sessionFile, passwords, passkeys, clock, argv>>

\* update_entry, second statement: the row that was read, with the supplied
\* fields replaced, goes into UPDATE ... SET url, username, password, title,
\* note WHERE id = ?6
UpdateExecute(p) ==
    /\ Running("update")
    /\ out.rows.procs[p].pc = "execute"
    /\ LET args == argv.args[p]
           me == out.rows.procs[p]
           o == UpdateOptions(Tail(args), NoOptions, me.rnd)
           res == update_entry({Unwrap(me.found)}, argv.env, args[1], o.url, o.username,
                               o.password, o.title, o.note, me.rnd)
       IN IF ~res.ok THEN UNCHANGED passwords
          ELSE LET current == CHOOSE r \in res.db : TRUE IN
               passwords' = {IF r.id = args[1]
                             THEN [r EXCEPT !.url = current.url, !.username = current.username,
                                            !.password = current.password,
                                            !.title = current.title, !.note = current.note]
                             ELSE r : r \in passwords}
    /\ out' = [out EXCEPT !.rows.procs[p].pc = "done"]
    /\ UNCHANGED <<now, sessionFile, passkeys, clock, argv>>

\* Two adds pass the gate and start.
AddStart(env, argsA, argsB, rndA, rndB) ==
    /\ ensure_authenticated(sessionFile, now).ok
    /\ Len(argsA) >= 2 /\ Len(argsB) >= 2
    /\ argv' = Invocation(env, <<argsA, argsB>>)
    /\ out' = InFlight("add", passwords,
                       <<Proc("select", None, rndA), Proc("select", None, rndB)>>)
    /\ UNCHANGED <<now, sessionFile, passwords, passkeys, clock>>

\* insert_password, first statement: SELECT ... WHERE url = ?1 ORDER BY
\* created_at DESC LIMIT 1
AddSelect(p) ==
    /\ Running("add")
    /\ out.rows.procs[p].pc = "select"
    /\ out' = [out EXCEPT !.rows.procs[p] =
                  Proc("execute", LatestByUrl(passwords, argv.args[p][1]), @.rnd)]
    /\ UNCHANGED <<now, sessionFile, passwords, passkeys, clock, argv>>

\* insert_password, second statement: UPDATE ... SET username, password,
\* title, note WHERE id = ?5 when the SELECT found a row, else INSERT
AddExecute(p) ==
    /\ Running("add")
    /\ out.rows.procs[p].pc = "execute"
    /\ LET args == argv.args[p]
           me == out.rows.procs[p]
           seen == IF IsSome(me.found) THEN {Unwrap(me.found)} ELSE {}
           password == AddPassword(Field(args, 2), me.rnd)
           opts == AddOptions(SubSeq(args, 4, Len(args)), None, None)
           res == insert_password(seen, argv.env, args[1], args[2], password,
                                  opts.title, opts.note, me.rnd, clock)
       IN IF ~res.ok THEN UNCHANGED <<passwords, clock>>
          ELSE IF res.inserted THEN
              /\ passwords' = passwords \cup res.db
              /\ clock' = clock + 1
          ELSE LET existing == CHOOSE r \in res.db : TRUE IN
              /\ passwords' = {IF r.id = existing.id
                               THEN [r EXCEPT !.username = existing.username,
                                              !.password = existing.password,
                                              !.title = existing.title, !.note = existing.note]
                               ELSE r : r \in passwords}
              /\ UNCHANGED clock
    /\ out' = [out EXCEPT !.rows.procs[p].pc = "done"]
    /\ UNCHANGED <<now, sessionFile, passkeys, argv>>

NextRace ==
    \/ AuthCmd(Some(Secret), <<Secret>>)
    \/ \E rnd \in Draws :
           /\ AddCmd(Some(Secret), <<UrlA, Alice, Pw1, F_note, N1>>, rnd)
           /\ UniqueIds(passwords') /\ clock' <= MaxClock
    \/ \E pair \in {<<<<F_url, UrlB>>, <<F_note, T2>>>>, <<<<F_note, T2>>, <<F_note, <<>>>>>>,
                    <<<<F_user, Bob, F_title, T1>>, <<F_title, T2>>>>} :
           UpdateStart(Some(Secret), <<FormatNat(1)>> \o pair[1], <<FormatNat(1)>> \o pair[2])
    \/ \E p \in 1..2 : UpdateSelect(p)
    \/ \E p \in 1..2 : UpdateExecute(p)
    \/ \E pair \in {<<<<UrlB, Bob, Pw2>>, <<UrlB, Alice, Pw1, F_title, T1>>>>,
                    <<<<UrlA, Bob, Pw2>>, <<UrlB, Bob, Pw2>>>>} :
           AddStart(Some(Secret), pair[1], pair[2],
                    Draw(FormatNat(1), 1, 1, FALSE), Draw(FormatNat(2), 1, 1, FALSE))
    \/ \E p \in 1..2 : AddSelect(p)
    \/ \E p \in 1..2 : /\ AddExecute(p)
                       /\ UniqueIds(passwords') /\ clock' <= MaxClock

SpecRace == Init /\ [][NextRace]_vars

-----------------------------------------------------------------------------
(* C29: two updates of one id that run at once leave, whatever the order of *)
(* their reads and writes, the table that one of the two orders of running  *)
(* them one after the other leaves: an update that supplies only the url    *)
(* does not bring back the note the other one replaced.                     *)
C29_UpdatesSerializable ==
    (Running("update") /\ AllDone) =>
        LET Apply(db, args) ==
                LET o == UpdateOptions(Tail(args), NoOptions, Draw(<<>>, 1, 1, FALSE)) IN
                update_entry(db, argv.env, args[1], o.url, o.username, o.password,
                             o.title, o.note, Draw(<<>>, 1, 1, FALSE)).db
            before == out.rows.before
        IN passwords \in {Apply(Apply(before, argv.args[1]), argv.args[2]),
                          Apply(Apply(before, argv.args[2]), argv.args[1])}

-----------------------------------------------------------------------------
(* C30: two adds of one url that the table does not hold, run at once,      *)
(* leave exactly one entry with that url, whatever the order of their       *)
(* lookups and writes.                                                      *)
C30_ConcurrentAddsUpsert ==
    (/\ Running("add") /\ AllDone
     /\ argv.args[1][1] = argv.args[2][1]
     /\ ~IsSome(LatestByUrl(out.rows.before, argv.args[1][1])))
        => Cardinality({r \in passwords : r.url = argv.args[1][1]}) = 1

-----------------------------------------------------------------------------
(* Two session commands at once *)

\* write!(f, ...) through a handle File::create opened: the bytes go to the
\* start of the file, over what it holds by then
Overwrite(old, text) == text \o SubSeq(old, Len(text) + 1, Len(old))

\* Two of auth, logout and status start. While they run, out.rows holds the
\* session file they started from and, for each, its command, the file
\* operation it runs next (pc), its exit code, and whether the handle it
\* opened still names the session file (open).
SessionStart(env, cmdA, argsA, cmdB, argsB) ==
    /\ argv' = Invocation(env, <<argsA, argsB>>)
    /\ out' = [Out("session", 0, "InFlight") EXCEPT
                  !.rows = [before |-> sessionFile,
                            procs |-> <<[cmd |-> cmdA, pc |-> "start", exit |-> 0, open |-> FALSE],
                                        [cmd |-> cmdB, pc |-> "start", exit |-> 0, open |-> FALSE]>>]]
    /\ UNCHANGED <<now, sessionFile, passwords, passkeys, clock>>

\* end_session(), one file operation at a time: path.exists(), then
\* fs::remove_file(path)?, an error when the file is gone by then. Removing
\* the file leaves the handles that were open on it with a file of no name.
LogoutStep(p) ==
    LET me == out.rows.procs[p] IN
    /\ Running("session")
    /\ me.cmd = "logout" /\ me.pc # "done"
    /\ IF me.pc = "start" THEN
           /\ out' = [out EXCEPT !.rows.procs[p].pc = IF IsSome(sessionFile) THEN "remove" ELSE "done"]
           /\ UNCHANGED sessionFile
       ELSE IF ~IsSome(sessionFile) THEN
           /\ out' = [out EXCEPT !.rows.procs[p] = [@ EXCEPT !.pc = "done", !.exit = 1]]
           /\ UNCHANGED sessionFile
       ELSE
           /\ sessionFile' = None
           /\ out' = [out EXCEPT !.rows.procs =
                         [q \in 1..2 |-> IF q = p THEN [@[q] EXCEPT !.pc = "done"]
                                         ELSE [@[q] EXCEPT !.open = FALSE]]]
    /\ UNCHANGED <<now, passwords, passkeys, clock, argv>>

\* auth, one file operation at a time: the secret is compared, then
\* start_session() creates (or empties) the file and writes the expiry
AuthStep(p) ==
    LET me == out.rows.procs[p]
        args == argv.args[p]
    IN
    /\ Running("session")
    /\ me.cmd = "auth" /\ me.pc # "done"
    /\ IF me.pc = "start" THEN
           IF args = <<>> \/ ~IsSome(argv.env) \/ Head(args) # Unwrap(argv.env) THEN
               /\ out' = [out EXCEPT !.rows.procs[p] = [@ EXCEPT !.pc = "done", !.exit = 1]]
               /\ UNCHANGED sessionFile
           ELSE
               /\ sessionFile' = Some(<<>>)
               /\ out' = [out EXCEPT !.rows.procs[p] = [@ EXCEPT !.pc = "write", !.open = TRUE]]
       ELSE
           /\ sessionFile' =
                  IF me.open
                  THEN Some(Overwrite(Unwrap(sessionFile),
                                      Unwrap(start_session(now, AuthTtl(Tail(args), DefaultTtl)))))
                  ELSE sessionFile
           /\ out' = [out EXCEPT !.rows.procs[p].pc = "done"]
    /\ UNCHANGED <<now, passwords, passkeys, clock, argv>>

\* status, one file operation at a time: session_status() tests
\* path.exists(), then reads and parses the file
StatusStep(p) ==
    LET me == out.rows.procs[p] IN
    /\ Running("session")
    /\ me.cmd = "status" /\ me.pc # "done"
    /\ out' = IF me.pc = "start" THEN
                  [out EXCEPT !.rows.procs[p] =
                      IF IsSome(sessionFile) THEN [@ EXCEPT !.pc = "read"]
                      ELSE [@ EXCEPT !.pc = "done", !.exit = 1]]
              ELSE
                  [out EXCEPT !.rows.procs[p] =
                      [@ EXCEPT !.pc = "done",
                                !.exit = IF IsSome(sessionFile) /\ session_status(sessionFile, now).ok
                                         THEN 0 ELSE 1]]
    /\ UNCHANGED <<now, sessionFile, passwords, passkeys, clock, argv>>

NextSessionRace ==
    \/ AuthCmd(Some(Secret), <<Secret, F_ttl, <<"1">>>>)
    \/ LogoutCmd
    \/ \E a, b \in {<<"logout", <<>>>>, <<"status", <<>>>>, <<"auth", <<Secret>>>>,
                    <<"auth", <<Secret, F_ttl, <<"1">>>>>>} :
           SessionStart(Some(Secret), a[1], a[2], b[1], b[2])
    \/ \E p \in 1..2 : LogoutStep(p)
    \/ \E p \in 1..2 : AuthStep(p)
    \/ \E p \in 1..2 : StatusStep(p)
    \/ now + (MaxTime \div 2) <= MaxTime /\ Tick(MaxTime \div 2)

SpecSessionRace == Init /\ [][NextSessionRace]_vars

-----------------------------------------------------------------------------
(* C31: whatever the order in which the file operations of two of auth,     *)
(* logout and status run, every logout finishes without error (also when    *)
(* the file goes away between its test and its removal) and the session     *)
(* file ends as one of the writers among them leaves it: absent after a     *)
(* logout, holding its expiry after an auth; untouched when neither writes. *)
C31_SessionRaceTolerant ==
    (Running("session") /\ AllDone) =>
        LET procs == out.rows.procs
            writers == {p \in 1..2 : procs[p].cmd \in {"logout", "auth"}}
            Leaves(p) == IF procs[p].cmd = "logout" THEN None
                         ELSE start_session(now, AuthTtl(Tail(argv.args[p]), DefaultTtl))
        IN /\ \A p \in 1..2 : procs[p].cmd = "logout" => procs[p].exit = 0
           /\ sessionFile \in IF writers = {} THEN {out.rows.before}
                              ELSE {Leaves(p) : p \in writers}

-----------------------------------------------------------------------------
(* C32: an import of a file whose rows have the shape of an export's (id,    *)
(* url, username, password, title, note, created_at) and whose header line  *)
(* is absent or names the columns otherwise succeeds and takes every row in: *)
(* after it, for each row of the file an entry holds the row's url, username *)
(* and password, and no entry has a row's id for its url.                   *)
C32_PositionalFallback ==
    [][(/\ out'.cmd = "import" /\ out'.msg \notin GateErrors
        /\ argv'.args \in {<<<<"r">>>>, <<<<"n">>>>})
          => LET file == ImportFile(argv'.args[1])
                 rows == IF argv'.args[1] = <<"n">> THEN <<file.headers>> \o file.records
                         ELSE file.records
             IN /\ out'.exit = 0
                /\ \A i \in 1..Len(rows) :
                       /\ \E m \in passwords' : /\ m.url = rows[i][2]
                                                /\ m.username = rows[i][3]
                                                /\ Opens(m) = Ok(rows[i][4])
                       /\ \A m \in passwords' : m.url # rows[i][1]]_vars

-----------------------------------------------------------------------------
(* C33: an import replays its rows through add. A row whose url has an      *)
(* entry adds none: the latest entry of that url takes the row's username   *)
(* and a password that opens to the row's, and where the row's title or     *)
(* note column is empty the entry keeps the title or note it had.           *)
C33_ImportUpserts ==
    [][(/\ out'.cmd = "import" /\ out'.exit = 0
        /\ argv'.args = <<<<"e">>>>
        /\ \E e \in passwords : e.url = ImportFile(<<"e">>).records[1][2])
          => LET rec == ImportFile(<<"e">>).records[1]
                 e == Unwrap(LatestByUrl(passwords, rec[2]))
             IN /\ Cardinality(passwords') = Cardinality(passwords)
                /\ \E m \in passwords' :
                       /\ m.id = e.id /\ m.url = e.url /\ m.created_at = e.created_at
                       /\ m.username = rec[3]
                       /\ Opens(m) = Ok(rec[4])
                       /\ (rec[5] = <<>> /\ IsSome(e.title)) => m.title = e.title
                       /\ (rec[6] = <<>> /\ IsSome(e.note)) => m.note = e.note]_vars

-----------------------------------------------------------------------------
(* C34: there is one session at most. Only a successful auth and a logout   *)
(* change the session file; after a logout there is none, and after a       *)
(* successful auth the file holds the expiry that this auth computed,       *)
(* whatever it held before: an auth during an active session replaces the   *)
(* expiry, also by an earlier one. A failed auth and a status change        *)
(* nothing.                                                                 *)
C34_SingleSession ==
    [][/\ sessionFile' # sessionFile
           => \/ out'.cmd = "auth" /\ out'.exit = 0
              \/ out'.cmd = "logout"
       /\ out'.cmd = "logout" => NoSession'
       /\ (out'.cmd = "auth" /\ out'.exit = 0)
           => /\ HasExpiry'
              /\ argv'.args \in {<<Secret>>, <<Secret, F_ttl>>, <<Secret, F_ttl, <<"x">>>>}
                     => Expiry' = now + DefaultTtl * 60
              /\ \A c \in TtlCases :
                     argv'.args = <<Secret, F_ttl, c.text>>
                         => Expiry' = now + Max(c.minutes, 1) * 60
              /\ (SessionActive /\ argv'.args = <<Secret, F_ttl, <<"1">>>>)
                     => Expiry' = now + 60]_vars

\* An auth for one minute succeeded after time had passed, and the file holds
\* this auth's expiry, earlier than any an auth for the default half hour
\* can have left there.
C34_Witness ==
    /\ out.cmd = "auth" /\ out.exit = 0
    /\ argv.args = <<Secret, F_ttl, <<"1">>>>
    /\ now > 1
    /\ sessionFile = Some(FormatNat(now + 60))

-----------------------------------------------------------------------------
(* C35: an import that fails at its k-th record is not undone, and it stops *)
(* between two rows: each record before the k-th has its entry, holding the *)
(* username and the password of the last such record of that url; the       *)
(* table grew by one entry for each url among them that it did not hold;    *)
(* and every entry is whole: it has an id, a url and a username, and a      *)
(* sealed password that opens under the entry's own id.                     *)
C35_FailedImportRowAtomic ==
    [][LET a == argv'.args
           file == ImportFile(a[1])
           lacks(rec) == \/ Len(rec) # Len(file.headers)
                         \/ \E n \in 1..3 :
                                /\ ByName(file.headers, rec, <<H_url, H_username, H_password>>[n]) = None
                                /\ Field(rec, n - 1) = None
           invalid == {i \in 1..Len(file.records) : lacks(file.records[i])}
           k == CHOOSE i \in invalid : \A j \in invalid : i <= j
           column(i, name, pos) ==
               Unwrap(OrElse(ByName(file.headers, file.records[i], name),
                             Field(file.records[i], pos)))
           last(i) == \A j \in (i + 1)..(k - 1) : column(j, H_url, 0) # column(i, H_url, 0)
           fresh == {column(i, H_url, 0) : i \in 1..(k - 1)} \ {e.url : e \in passwords}
       IN (/\ out'.cmd = "import" /\ out'.exit # 0 /\ out'.msg \notin GateErrors
           /\ a # <<>> /\ invalid # {})
          => /\ \A i \in 1..(k - 1) :
                    last(i) => \E m \in passwords' :
                                   /\ m = Unwrap(LatestByUrl(passwords', column(i, H_url, 0)))
                                   /\ m.username = column(i, H_username, 1)
                                   /\ Opens(m) = Ok(column(i, H_password, 2))
             /\ Cardinality(passwords') = Cardinality(passwords) + Cardinality(fresh)
             /\ \A m \in passwords' :
                    /\ m.id # <<>> /\ m.url # <<>> /\ m.username # <<>>
                    /\ m.password.sealed /\ m.password.key[1] = m.id
                    /\ Opens(m).ok]_vars

\* An import failed at its second record and the entry of the first one is
\* there, beside an entry the table held before.
C35_Witness ==
    /\ out.cmd = "import" /\ out.exit = 1 /\ argv.args = <<<<"c">>>>
    /\ Cardinality(passwords) = 2
    /\ \E r \in passwords : r.url = UrlA /\ r.username = Alice /\ Opens(r) = Ok(Pw1)
    /\ \E r \in passwords : r.url = UrlB

-----------------------------------------------------------------------------
(* One add, loop by loop *)

\* u64, scaled to a word of RandBits bits
RandBits == 3
MaxU64 == 2^RandBits - 1

\* rand_index(len), one turn of its loop, v being what OsRng.next_u64()
\* returned: the index, or None when v is rejected and the loop draws again
rand_index(len, v) ==
    IF len <= 1 THEN Some(0)
    ELSE LET zone == MaxU64 - (MaxU64 % len) IN
         IF v < zone THEN Some(v % len) ELSE None

\* data.swap(i, j), i and j counted from 0
Swap(data, i, j) ==
    [k \in 1..Len(data) |-> IF k = i + 1 THEN data[j + 1]
                            ELSE IF k = j + 1 THEN data[i + 1] ELSE data[k]]

\* An add starts: the gate, url and username, then the third argument. While
\* the add runs, out.rows holds the loop it is in (pc), the length asked for,
\* the bytes of the password so far, the index i of the shuffle, the
\* arguments not read yet and the title and note read so far.
AddBegin(env, args) ==
    LET gate == ensure_authenticated(sessionFile, now)
        third == Field(args, 2)
        n == IF IsSome(third) THEN ParseUsize(Unwrap(third)) ELSE None
        verbatim == IsSome(third) /\ ~IsSome(n)
    IN
    /\ out.msg # "InFlight"
    /\ argv' = Invocation(env, args)
    /\ out' = IF ~gate.ok THEN Out("add", 1, gate.err)
              ELSE IF Len(args) < 2 THEN Out("add", 1, "Usage")
              ELSE [Out("add", 0, "InFlight") EXCEPT
                       !.rows = [pc |-> IF verbatim THEN "options" ELSE "category",
                                 len |-> IF ~IsSome(third) THEN DefaultLength
                                         ELSE IF IsSome(n) THEN Max(Unwrap(n), 1) ELSE 0,
                                 bytes |-> IF verbatim THEN Unwrap(third) ELSE <<>>,
                                 i |-> 0,
                                 rest |-> SubSeq(args, 4, Len(args)),
                                 title |-> None, note |-> None]]
    /\ UNCHANGED <<now, sessionFile, passwords, passkeys, clock>>

\* generate_password, one turn of rand_index's loop: a rejected value leaves
\* everything as it is; an index gives the next byte of a category, the next
\* byte of the alphabet, or the next swap of fisher_yates_shuffle
AddDraw(v) ==
    LET me == out.rows
        alphabet == UPPER \o LOWER \o DIGIT
        \* after the last push: the shuffle, which does nothing to one byte
        shuffled(bytes) == IF Len(bytes) <= 1 THEN [me EXCEPT !.pc = "options", !.bytes = bytes]
                           ELSE [me EXCEPT !.pc = "shuffle", !.bytes = bytes, !.i = Len(bytes) - 1]
    IN
    /\ Running("add")
    /\ me.pc \in {"category", "fill", "shuffle"}
    /\ out' = [out EXCEPT !.rows =
           IF me.pc = "category" THEN
               LET cat == <<UPPER, LOWER, DIGIT>>[Len(me.bytes) + 1]
                   idx == rand_index(Len(cat), v)
                   bytes == Append(me.bytes, cat[Unwrap(idx) + 1])
               IN IF ~IsSome(idx) THEN me
                  ELSE IF Len(bytes) >= me.len THEN shuffled(bytes)
                  ELSE [me EXCEPT !.bytes = bytes, !.pc = IF Len(bytes) = 3 THEN "fill" ELSE "category"]
           ELSE IF me.pc = "fill" THEN
               LET idx == rand_index(Len(alphabet), v)
                   bytes == Append(me.bytes, alphabet[Unwrap(idx) + 1])
               IN IF ~IsSome(idx) THEN me
                  ELSE IF Len(bytes) >= me.len THEN shuffled(bytes)
                  ELSE [me EXCEPT !.bytes = bytes]
           ELSE
               LET j == rand_index(me.i + 1, v) IN
               IF ~IsSome(j) THEN me
               ELSE [me EXCEPT !.bytes = Swap(me.bytes, me.i, Unwrap(j)),
                               !.i = me.i - 1,
                               !.pc = IF me.i = 1 THEN "options" ELSE "shuffle"]]
    /\ UNCHANGED <<now, sessionFile, passwords, passkeys, clock, argv>>

\* An option loop whose `continue` does not take the unknown argument off.
AddOptionStep_stuck ==
    LET me == out.rows IN
    /\ Running("add")
    /\ me.pc = "options"
    /\ out' = [out EXCEPT !.rows =
           IF me.rest = <<>> THEN [me EXCEPT !.pc = "store"]
           ELSE IF Head(me.rest) = F_title
           THEN [me EXCEPT !.title = NextArg(me.rest), !.rest = After(me.rest)]
           ELSE IF Head(me.rest) = F_note
           THEN [me EXCEPT !.note = NextArg(me.rest), !.rest = After(me.rest)]
           ELSE me]
    /\ UNCHANGED <<now, sessionFile, passwords, passkeys, clock, argv>>

\* "add", one turn of the loop over the options: args.next() is --title or
\* --note (the argument after it is taken too), anything else (skipped), or
\* nothing (break)
AddOptionStep ==
    LET me == out.rows IN
    /\ Running("add")
    /\ me.pc = "options"
    /\ out' = [out EXCEPT !.rows =
           IF me.rest = <<>> THEN [me EXCEPT !.pc = "store"]
           ELSE IF Head(me.rest) = F_title
           THEN [me EXCEPT !.title = NextArg(me.rest), !.rest = After(me.rest)]
           ELSE IF Head(me.rest) = F_note
           THEN [me EXCEPT !.note = NextArg(me.rest), !.rest = After(me.rest)]
           ELSE [me EXCEPT !.rest = Tail(me.rest)]]
    /\ UNCHANGED <<now, sessionFile, passwords, passkeys, clock, argv>>

\* "add", after the loops: insert_password, and the add reports and exits
AddStore(rnd) ==
    LET me == out.rows
        res == insert_password(passwords, argv.env, argv.args[1], argv.args[2], me.bytes,
                               me.title, me.note, rnd, clock)
    IN
    /\ Running("add")
    /\ me.pc = "store"
    /\ passwords' = res.db
    /\ clock' = IF res.ok /\ res.inserted THEN clock + 1 ELSE clock
    /\ out' = IF res.ok THEN Out("add", 0, "") ELSE Out("add", 1, res.err)
    /\ UNCHANGED <<now, sessionFile, passkeys, argv>>

\* No other command is run while the add is on its way, and an add is
\* followed into a table that is empty.
NextAddSteps ==
    \/ out.msg # "InFlight" /\ AuthCmd(Some(Secret), <<Secret>>)
    \/ \E env \in {None, Some(Secret)} :
       \E args \in {<<UrlA, Alice, Pw1>>, <<UrlA, Alice, <<"1">>>>,
                    <<UrlA, Alice, <<"4">>, <<"x">>, F_title, T1>>,
                    <<UrlB, Bob, <<"2">>, F_note, N1, F_title>>, <<UrlB>>} :
           passwords = {} /\ AddBegin(env, args)
    \/ \E v \in 0..MaxU64 : AddDraw(v)
    \/ AddOptionStep
    \/ \E uuid \in Uuids : AddStore(Draw(uuid, 1, 1, FALSE))

\* The process keeps running, and the random source is fair: the loop of
\* rand_index is not handed rejected values for ever.
SpecAddSteps ==
    /\ Init /\ [][NextAddSteps]_vars
    /\ WF_vars(\E v \in 0..MaxU64 : AddDraw(v))
    /\ WF_vars(AddOptionStep)
    /\ WF_vars(\E uuid \in Uuids : AddStore(Draw(uuid, 1, 1, FALSE)))

-----------------------------------------------------------------------------
(* C36: every invocation ends, with success or with a reported failure:     *)
(* nothing waits or loops for ever. An add that has started comes, through  *)
(* the loops of the password generator (given a fair random source) and the *)
(* loop over its options, to its report and its exit code.                  *)
C36_AddTerminates ==
    (out.msg = "InFlight") ~> (out.cmd = "add" /\ out.msg # "InFlight" /\ out.exit \in {0, 1})

\* An add that generated four characters and read an unknown argument and a
\* title has ended and stored them.
C36_Witness ==
    /\ out.cmd = "add" /\ out.exit = 0 /\ out.msg = ""
    /\ argv.args = <<UrlA, Alice, <<"4">>, <<"x">>, F_title, T1>>
    /\ \E r \in passwords : r.url = UrlA /\ Len(Opens(r).val) = 4 /\ r.title = Some(T1)

-----------------------------------------------------------------------------
(* C37: the session commands (auth, logout, status) change neither table;   *)
(* a command on credentials changes no passkey and a command on passkeys no *)
(* credential; get, search and export of either kind change nothing at all; *)
(* and no command on the vault changes the session file.                    *)
C37_ComponentFrame ==
    [][/\ out'.cmd \in {"auth", "logout", "status"} => UNCHANGED <<passwords, passkeys>>
       /\ out'.cmd \in {"add", "get", "search", "update", "delete", "export", "import"}
              => UNCHANGED passkeys
       /\ out'.cmd \in {"passkey add", "passkey get", "passkey search", "passkey delete",
                        "passkey export", "passkey import"}
              => UNCHANGED passwords
       /\ out'.cmd \in {"get", "search", "export", "passkey get", "passkey search", "passkey export"}
              => UNCHANGED <<passwords, passkeys, sessionFile>>
       /\ out'.cmd \in VaultCmds => UNCHANGED sessionFile]_vars

\* A delete removed the only credential, and the passkey of the same id is
\* still there.
C37_Witness ==
    /\ out.cmd = "delete" /\ out.exit = 0
    /\ passwords = {} /\ clock = 2
    /\ \E k \in passkeys : k.id = argv.args[1]

-----------------------------------------------------------------------------
(* C38: a title, and likewise a note, can be given to an entry and not be   *)
(* taken from it: whatever add, update or import runs, an entry that had a  *)
(* title (a note) and is still in the table has one afterwards.             *)
C38_TitleNoteStaySet ==
    [][\A e \in passwords : \A m \in passwords' :
           m.id = e.id => /\ IsSome(e.title) => IsSome(m.title)
                          /\ IsSome(e.note) => IsSome(m.note)]_vars

\* An update of the username alone ran on an entry that has a title and a
\* note, and it has them still.
C38_Witness ==
    /\ out.cmd = "update" /\ out.exit = 0
    /\ argv.args = <<FormatNat(1), F_user, Bob>>
    /\ \E r \in passwords : /\ r.id = FormatNat(1) /\ r.username = Bob
                            /\ r.title = Some(T1) /\ r.note = Some(N1)

-----------------------------------------------------------------------------
(* C39: when several entries have the same url (an update --url made them), *)
(* an add for that url writes the one created last among them, which takes  *)
(* the username and password given, and leaves the others of that url and   *)
(* all entries of other urls as they were; it adds none.                    *)
C39_AddWritesLatestOnly ==
    [][(/\ out'.cmd = "add" /\ out'.exit = 0
        /\ Cardinality({e \in passwords : e.url = argv'.args[1]}) >= 2)
          => LET a == argv'.args
                 same == {e \in passwords : e.url = a[1]}
             IN \E latest \in same :
                    /\ \A q \in same : q.created_at <= latest.created_at
                    /\ \A e \in passwords : e.id # latest.id => e \in passwords'
                    /\ Cardinality(passwords') = Cardinality(passwords)
                    /\ \E m \in passwords' :
                           /\ m.id = latest.id /\ m.url = a[1]
                           /\ m.created_at = latest.created_at
                           /\ m.username = a[2]
                           /\ GivesPassword(a) => Opens(m) = Ok(a[3])]_vars

\* An add for a url of two entries ran: the one created last has the
\* username given, the other one still has its own.
C39_Witness ==
    /\ out.cmd = "add" /\ out.exit = 0 /\ argv.args[1] = UrlB
    /\ \E r, q \in passwords :
           /\ r.url = UrlB /\ q.url = UrlB
           /\ r.created_at < q.created_at
           /\ r.username = Alice /\ q.username = argv.args[2]

-----------------------------------------------------------------------------
(* C40: while the session file exists and holds no integer, every gated     *)
(* command and status exit non-zero and leave both tables and the file as   *)
(* they were; an auth that succeeds writes an expiry over it, so that the   *)
(* session is active; a logout removes the file.                            *)
SessionCorrupt ==
    IsSome(sessionFile) /\ ~IsSome(ParseI64(Trim(Unwrap(sessionFile))))

C40_CorruptSessionFailsClosed ==
    [][(SessionCorrupt /\ now' = now)
          => /\ out'.cmd \in VaultCmds \cup {"status"}
                 => /\ out'.exit # 0
                    /\ UNCHANGED <<passwords, passkeys, clock, sessionFile>>
             /\ (out'.cmd = "auth" /\ out'.exit = 0)
                 => /\ SessionActive'
                    /\ sessionFile' = Some(FormatNat(now + SecondsPerMinute))
             /\ out'.cmd = "logout" => (out'.exit = 0 /\ NoSession')]_vars

\* The file held a word and a gated command was refused for it.
C40_Witness ==
    /\ sessionFile = Some(<<"x">>)
    /\ out.cmd \in VaultCmds /\ out.exit = 1 /\ out.msg = "StatusFailed"

====
